---- MODULE Spec2Model ----
EXTENDS Integers, Sequences, FiniteSets, TLC

\* ---- symbols: enum of token and node kinds ----
ts_builtin_sym_end == 0
sym_comment == 1
sym_identifier == 2
sym_number == 3
aux_sym_string_token1 == 4
aux_sym_string_token2 == 5
aux_sym_string_token3 == 6
aux_sym_string_token4 == 7
aux_sym_string_token5 == 8
anon_sym_true == 9
anon_sym_false == 10
anon_sym_let == 11
anon_sym_set == 12
anon_sym_EQ == 13
anon_sym_LPAREN == 14
anon_sym_COMMA == 15
anon_sym_RPAREN == 16
anon_sym_trigger == 17
anon_sym_only == 18
anon_sym_once == 19
anon_sym_when == 20
anon_sym_LBRACE == 21
anon_sym_RBRACE == 22
anon_sym_if == 23
anon_sym_do == 24
anon_sym_room == 25
anon_sym_name == 26
anon_sym_desc == 27
anon_sym_description == 28
anon_sym_visited == 29
anon_sym_overlay == 30
anon_sym_unset == 31
anon_sym_text == 32
anon_sym_normal == 33
anon_sym_happy == 34
anon_sym_bored == 35
anon_sym_exit == 36
anon_sym_DASH_GT == 37
anon_sym_required_flags == 38
anon_sym_required_items == 39
anon_sym_barred == 40
anon_sym_item == 41
anon_sym_portable == 42
anon_sym_ability == 43
anon_sym_container == 44
anon_sym_state == 45
anon_sym_open == 46
anon_sym_closed == 47
anon_sym_restricted == 48
anon_sym_spinner == 49
anon_sym_wedge == 50
anon_sym_width == 51
anon_sym_npc == 52
anon_sym_mad == 53
anon_sym_custom == 54
anon_sym_movement == 55
anon_sym_random == 56
anon_sym_route == 57
anon_sym_rooms == 58
anon_sym_timing == 59
anon_sym_active == 60
anon_sym_dialogue == 61
anon_sym_location == 62
anon_sym_chest == 63
anon_sym_inventory == 64
anon_sym_player == 65
anon_sym_nowhere == 66
anon_sym_goal == 67
anon_sym_group == 68
anon_sym_required == 69
anon_sym_optional == 70
anon_sym_status_DASHeffect == 71
anon_sym_done == 72
anon_sym_start == 73
anon_sym_has == 74
anon_sym_flag == 75
anon_sym_missing == 76
anon_sym_reached == 77
anon_sym_complete == 78
anon_sym_in == 79
anon_sym_progress == 80
sym_program == 81
sym_string == 82
sym_boolean == 83
sym_set_decl == 84
sym_set_list == 85
sym_trigger == 86
sym_trigger_mod == 87
sym_trigger_block == 88
sym_trigger_stmt == 89
sym_if_block == 90
sym_do_stmt == 91
sym_braced_block == 92
sym_cond_line == 93
sym_cond_line_ext == 94
sym_room_def == 95
sym_room_block == 96
sym_room_stmt == 97
sym_room_name == 98
sym_room_desc == 99
sym_room_visited == 100
sym_overlay_stmt == 101
sym_overlay_block == 102
sym_overlay_entry == 103
sym_exit_stmt == 104
sym_exit_block == 105
sym_exit_attr == 106
sym_exit_required_flags == 107
sym_exit_required_items == 108
sym_exit_barred == 109
sym_item_def == 110
sym_item_block == 111
sym_item_stmt == 112
sym_item_name == 113
sym_item_desc == 114
sym_item_portable == 115
sym_item_text == 116
sym_item_location == 117
sym_item_ability == 118
sym_item_container_state == 119
sym_item_restricted == 120
sym_spinner_def == 121
sym_spinner_block == 122
sym_wedge_stmt == 123
sym_npc_def == 124
sym_npc_block == 125
sym_npc_stmt == 126
sym_npc_name == 127
sym_npc_desc == 128
sym_npc_state == 129
sym_movement_stmt == 130
sym_dialogue_stmt == 131
sym_location == 132
sym_goal_def == 133
sym_goal_stmt == 134
sym_goal_desc == 135
sym_goal_group == 136
sym_goal_done == 137
sym_goal_start == 138
sym_goal_cond == 139
aux_sym_program_repeat1 == 140
aux_sym_set_list_repeat1 == 141
aux_sym_trigger_repeat1 == 142
aux_sym_trigger_block_repeat1 == 143
aux_sym_do_stmt_repeat1 == 144
aux_sym_cond_line_ext_repeat1 == 145
aux_sym_room_block_repeat1 == 146
aux_sym_overlay_block_repeat1 == 147
aux_sym_exit_block_repeat1 == 148
aux_sym_item_block_repeat1 == 149
aux_sym_spinner_block_repeat1 == 150
aux_sym_npc_block_repeat1 == 151
aux_sym_dialogue_stmt_repeat1 == 152
aux_sym_goal_def_repeat1 == 153

\* ---- ts_lex: the lexer DFA, one definition per `case` of the switch ----
\* Characters are their code points; lookahead is 0 at end of input.
NoToken == 0 - 1
ADVANCE(state_value) == [op |-> "ADVANCE", state |-> state_value, accept |-> NoToken]
SKIP(state_value) == [op |-> "SKIP", state |-> state_value, accept |-> NoToken]
END_STATE == [op |-> "END_STATE", state |-> 0, accept |-> NoToken]
ACCEPT_TOKEN(symbol_value, rest) == [rest EXCEPT !.accept = symbol_value]

\* case 8 of ts_lex, had the third `"` in a row gone on as after an escaped `"`
ts_lex_8_escaped(lookahead, eof) ==
  IF lookahead = 34 THEN ADVANCE(335)
  ELSE IF lookahead # 0 THEN ADVANCE(10)
  ELSE END_STATE
\* case 8 of ts_lex
ts_lex_8(lookahead, eof) ==
  IF lookahead = 34 THEN ADVANCE(334)
  ELSE IF lookahead # 0 THEN ADVANCE(10)
  ELSE END_STATE
\* case 9 of ts_lex
ts_lex_9(lookahead, eof) ==
  IF lookahead = 34 THEN ADVANCE(335)
  ELSE IF lookahead # 0 THEN ADVANCE(10)
  ELSE END_STATE
\* case 10 of ts_lex, had `#` ended the content of a block string
ts_lex_10_comment(lookahead, eof) ==
  IF lookahead = 34 THEN ADVANCE(11)
  ELSE IF lookahead = 92 THEN ADVANCE(309)
  ELSE IF lookahead = 35 THEN END_STATE
  ELSE IF lookahead # 0 THEN ADVANCE(10)
  ELSE END_STATE
\* case 10 of ts_lex
ts_lex_10(lookahead, eof) ==
  IF lookahead = 34 THEN ADVANCE(11)
  ELSE IF lookahead = 92 THEN ADVANCE(309)
  ELSE IF lookahead # 0 THEN ADVANCE(10)
  ELSE END_STATE
\* case 11 of ts_lex, had the second `"` in a row ended the block string
ts_lex_11_two_quotes(lookahead, eof) ==
  IF lookahead = 34 THEN ADVANCE(334)
  ELSE IF lookahead # 0 THEN ADVANCE(10)
  ELSE END_STATE
\* case 11 of ts_lex
ts_lex_11(lookahead, eof) ==
  IF lookahead = 34 THEN ADVANCE(8)
  ELSE IF lookahead # 0 THEN ADVANCE(10)
  ELSE END_STATE
\* case 17 of ts_lex, had the upper-case letters been left out of the class
ts_lex_17_no_upper(lookahead, eof) ==
  IF lookahead = 35 THEN ADVANCE(315)
  ELSE IF lookahead = 9 \/ lookahead = 10 \/ lookahead = 13 \/ lookahead = 32 THEN SKIP(17)
  ELSE IF lookahead = 45 \/ (48 <= lookahead /\ lookahead <= 58) \/ lookahead = 95 \/ (97 <= lookahead /\ lookahead <= 122) THEN ADVANCE(328)
  ELSE END_STATE
\* case 17 of ts_lex
ts_lex_17(lookahead, eof) ==
  IF lookahead = 35 THEN ADVANCE(315)
  ELSE IF lookahead = 9 \/ lookahead = 10 \/ lookahead = 13 \/ lookahead = 32 THEN SKIP(17)
  ELSE IF lookahead = 45 \/ (48 <= lookahead /\ lookahead <= 58) \/ (65 <= lookahead /\ lookahead <= 90) \/ lookahead = 95 \/ (97 <= lookahead /\ lookahead <= 122) THEN ADVANCE(328)
  ELSE END_STATE
\* case 328 of ts_lex, had `-` been left out of the class
ts_lex_328_no_hyphen(lookahead, eof) ==
  ACCEPT_TOKEN(sym_identifier,
    IF lookahead = 35 \/ (48 <= lookahead /\ lookahead <= 58) \/ (65 <= lookahead /\ lookahead <= 90) \/ lookahead = 95 \/ (97 <= lookahead /\ lookahead <= 122) THEN ADVANCE(328)
    ELSE END_STATE)
\* case 328 of ts_lex
ts_lex_328(lookahead, eof) ==
  ACCEPT_TOKEN(sym_identifier,
    IF lookahead = 35 \/ lookahead = 45 \/ (48 <= lookahead /\ lookahead <= 58) \/ (65 <= lookahead /\ lookahead <= 90) \/ lookahead = 95 \/ (97 <= lookahead /\ lookahead <= 122) THEN ADVANCE(328)
    ELSE END_STATE)
\* case 334 of ts_lex
ts_lex_334(lookahead, eof) ==
  ACCEPT_TOKEN(aux_sym_string_token3,
    END_STATE)
\* case 335 of ts_lex
ts_lex_335(lookahead, eof) ==
  ACCEPT_TOKEN(aux_sym_string_token3,
    IF lookahead = 34 THEN ADVANCE(334)
    ELSE IF lookahead # 0 THEN ADVANCE(10)
    ELSE END_STATE)
\* case 362 of ts_lex, had `desc` been final there as in case 361
ts_lex_362_final(lookahead, eof) ==
  ACCEPT_TOKEN(anon_sym_desc,
    END_STATE)
\* case 362 of ts_lex
ts_lex_362(lookahead, eof) ==
  ACCEPT_TOKEN(anon_sym_desc,
    IF lookahead = 114 THEN ADVANCE(146)
    ELSE END_STATE)
\* case 1 of ts_lex, had a digit not started an identifier
ts_lex_1_no_digit(lookahead, eof) ==
  IF lookahead = 34 THEN ADVANCE(4)
  ELSE IF lookahead = 35 THEN ADVANCE(315)
  ELSE IF lookahead = 39 THEN ADVANCE(18)
  ELSE IF lookahead = 40 THEN ADVANCE(344)
  ELSE IF lookahead = 41 THEN ADVANCE(346)
  ELSE IF lookahead = 44 THEN ADVANCE(345)
  ELSE IF lookahead = 45 THEN ADVANCE(327)
  ELSE IF lookahead = 114 THEN ADVANCE(318)
  ELSE IF lookahead = 123 THEN ADVANCE(353)
  ELSE IF lookahead = 9 \/ lookahead = 10 \/ lookahead = 13 \/ lookahead = 32 THEN SKIP(1)
  ELSE IF lookahead = 58 \/ (65 <= lookahead /\ lookahead <= 90) \/ lookahead = 95 \/ (97 <= lookahead /\ lookahead <= 122) THEN ADVANCE(328)
  ELSE END_STATE
\* case 1 of ts_lex
ts_lex_1(lookahead, eof) ==
  IF lookahead = 34 THEN ADVANCE(4)
  ELSE IF lookahead = 35 THEN ADVANCE(315)
  ELSE IF lookahead = 39 THEN ADVANCE(18)
  ELSE IF lookahead = 40 THEN ADVANCE(344)
  ELSE IF lookahead = 41 THEN ADVANCE(346)
  ELSE IF lookahead = 44 THEN ADVANCE(345)
  ELSE IF lookahead = 45 THEN ADVANCE(327)
  ELSE IF lookahead = 114 THEN ADVANCE(318)
  ELSE IF lookahead = 123 THEN ADVANCE(353)
  ELSE IF lookahead = 9 \/ lookahead = 10 \/ lookahead = 13 \/ lookahead = 32 THEN SKIP(1)
  ELSE IF (48 <= lookahead /\ lookahead <= 57) THEN ADVANCE(327)
  ELSE IF lookahead = 58 \/ (65 <= lookahead /\ lookahead <= 90) \/ lookahead = 95 \/ (97 <= lookahead /\ lookahead <= 122) THEN ADVANCE(328)
  ELSE END_STATE
\* case 27 of ts_lex, had `-` not led into a number
ts_lex_27_no_digit(lookahead, eof) ==
  IF lookahead = 62 THEN ADVANCE(372)
  ELSE END_STATE
\* case 27 of ts_lex
ts_lex_27(lookahead, eof) ==
  IF lookahead = 62 THEN ADVANCE(372)
  ELSE IF (48 <= lookahead /\ lookahead <= 57) THEN ADVANCE(329)
  ELSE END_STATE
\* case 316 of ts_lex, had a line break not ended the comment
ts_lex_316_no_line_end(lookahead, eof) ==
  ACCEPT_TOKEN(sym_comment,
    IF lookahead # 0 THEN ADVANCE(316)
    ELSE END_STATE)
\* case 316 of ts_lex
ts_lex_316(lookahead, eof) ==
  ACCEPT_TOKEN(sym_comment,
    IF lookahead # 0 /\ lookahead # 10 THEN ADVANCE(316)
    ELSE END_STATE)
\* case 311 of ts_lex, had a backslash not escaped a `"`
ts_lex_311_quote_ends(lookahead, eof) ==
  IF lookahead = 34 THEN ADVANCE(330)
  ELSE IF lookahead # 0 /\ lookahead # 10 THEN ADVANCE(5)
  ELSE END_STATE
\* case 311 of ts_lex
ts_lex_311(lookahead, eof) ==
  IF lookahead # 0 /\ lookahead # 10 THEN ADVANCE(5)
  ELSE END_STATE
\* case 0 of ts_lex, had `#` been skipped like white space
ts_lex_0_hash_skipped(lookahead, eof) ==
  IF eof THEN ADVANCE(314)
  ELSE IF lookahead = 34 THEN ADVANCE(4)
  ELSE IF lookahead = 35 THEN SKIP(0)
  ELSE IF lookahead = 39 THEN ADVANCE(18)
  ELSE IF lookahead = 40 THEN ADVANCE(344)
  ELSE IF lookahead = 41 THEN ADVANCE(346)
  ELSE IF lookahead = 44 THEN ADVANCE(345)
  ELSE IF lookahead = 45 THEN ADVANCE(27)
  ELSE IF lookahead = 61 THEN ADVANCE(343)
  ELSE IF lookahead = 97 THEN ADVANCE(50)
  ELSE IF lookahead = 98 THEN ADVANCE(29)
  ELSE IF lookahead = 99 THEN ADVANCE(138)
  ELSE IF lookahead = 100 THEN ADVANCE(91)
  ELSE IF lookahead = 101 THEN ADVANCE(301)
  ELSE IF lookahead = 102 THEN ADVANCE(30)
  ELSE IF lookahead = 103 THEN ADVANCE(218)
  ELSE IF lookahead = 104 THEN ADVANCE(31)
  ELSE IF lookahead = 105 THEN ADVANCE(124)
  ELSE IF lookahead = 108 THEN ADVANCE(90)
  ELSE IF lookahead = 109 THEN ADVANCE(32)
  ELSE IF lookahead = 110 THEN ADVANCE(33)
  ELSE IF lookahead = 111 THEN ADVANCE(186)
  ELSE IF lookahead = 112 THEN ADVANCE(166)
  ELSE IF lookahead = 114 THEN ADVANCE(14)
  ELSE IF lookahead = 115 THEN ADVANCE(94)
  ELSE IF lookahead = 116 THEN ADVANCE(87)
  ELSE IF lookahead = 117 THEN ADVANCE(192)
  ELSE IF lookahead = 118 THEN ADVANCE(147)
  ELSE IF lookahead = 119 THEN ADVANCE(92)
  ELSE IF lookahead = 123 THEN ADVANCE(353)
  ELSE IF lookahead = 125 THEN ADVANCE(354)
  ELSE IF lookahead = 9 \/ lookahead = 10 \/ lookahead = 13 \/ lookahead = 32 THEN SKIP(0)
  ELSE IF (48 <= lookahead /\ lookahead <= 57) THEN ADVANCE(329)
  ELSE END_STATE
\* case 0 of ts_lex
ts_lex_0(lookahead, eof) ==
  IF eof THEN ADVANCE(314)
  ELSE IF lookahead = 34 THEN ADVANCE(4)
  ELSE IF lookahead = 35 THEN ADVANCE(316)
  ELSE IF lookahead = 39 THEN ADVANCE(18)
  ELSE IF lookahead = 40 THEN ADVANCE(344)
  ELSE IF lookahead = 41 THEN ADVANCE(346)
  ELSE IF lookahead = 44 THEN ADVANCE(345)
  ELSE IF lookahead = 45 THEN ADVANCE(27)
  ELSE IF lookahead = 61 THEN ADVANCE(343)
  ELSE IF lookahead = 97 THEN ADVANCE(50)
  ELSE IF lookahead = 98 THEN ADVANCE(29)
  ELSE IF lookahead = 99 THEN ADVANCE(138)
  ELSE IF lookahead = 100 THEN ADVANCE(91)
  ELSE IF lookahead = 101 THEN ADVANCE(301)
  ELSE IF lookahead = 102 THEN ADVANCE(30)
  ELSE IF lookahead = 103 THEN ADVANCE(218)
  ELSE IF lookahead = 104 THEN ADVANCE(31)
  ELSE IF lookahead = 105 THEN ADVANCE(124)
  ELSE IF lookahead = 108 THEN ADVANCE(90)
  ELSE IF lookahead = 109 THEN ADVANCE(32)
  ELSE IF lookahead = 110 THEN ADVANCE(33)
  ELSE IF lookahead = 111 THEN ADVANCE(186)
  ELSE IF lookahead = 112 THEN ADVANCE(166)
  ELSE IF lookahead = 114 THEN ADVANCE(14)
  ELSE IF lookahead = 115 THEN ADVANCE(94)
  ELSE IF lookahead = 116 THEN ADVANCE(87)
  ELSE IF lookahead = 117 THEN ADVANCE(192)
  ELSE IF lookahead = 118 THEN ADVANCE(147)
  ELSE IF lookahead = 119 THEN ADVANCE(92)
  ELSE IF lookahead = 123 THEN ADVANCE(353)
  ELSE IF lookahead = 125 THEN ADVANCE(354)
  ELSE IF lookahead = 9 \/ lookahead = 10 \/ lookahead = 13 \/ lookahead = 32 THEN SKIP(0)
  ELSE IF (48 <= lookahead /\ lookahead <= 57) THEN ADVANCE(329)
  ELSE END_STATE
\* case 313 of ts_lex, had the start state accepted an identifier without a character
ts_lex_313_accepting(lookahead, eof) ==
  ACCEPT_TOKEN(sym_identifier,
    IF eof THEN ADVANCE(314)
    ELSE IF lookahead = 34 THEN ADVANCE(4)
    ELSE IF lookahead = 35 THEN ADVANCE(316)
    ELSE IF lookahead = 39 THEN ADVANCE(18)
    ELSE IF lookahead = 44 THEN ADVANCE(345)
    ELSE IF lookahead = 45 THEN ADVANCE(26)
    ELSE IF lookahead = 98 THEN ADVANCE(29)
    ELSE IF lookahead = 99 THEN ADVANCE(137)
    ELSE IF lookahead = 100 THEN ADVANCE(118)
    ELSE IF lookahead = 103 THEN ADVANCE(218)
    ELSE IF lookahead = 104 THEN ADVANCE(41)
    ELSE IF lookahead = 105 THEN ADVANCE(201)
    ELSE IF lookahead = 108 THEN ADVANCE(89)
    ELSE IF lookahead = 110 THEN ADVANCE(205)
    ELSE IF lookahead = 111 THEN ADVANCE(197)
    ELSE IF lookahead = 114 THEN ADVANCE(15)
    ELSE IF lookahead = 115 THEN ADVANCE(95)
    ELSE IF lookahead = 116 THEN ADVANCE(88)
    ELSE IF lookahead = 117 THEN ADVANCE(192)
    ELSE IF lookahead = 119 THEN ADVANCE(92)
    ELSE IF lookahead = 123 THEN ADVANCE(353)
    ELSE IF lookahead = 125 THEN ADVANCE(354)
    ELSE IF lookahead = 9 \/ lookahead = 10 \/ lookahead = 13 \/ lookahead = 32 THEN SKIP(313)
    ELSE END_STATE)
\* case 313 of ts_lex
ts_lex_313(lookahead, eof) ==
  IF eof THEN ADVANCE(314)
  ELSE IF lookahead = 34 THEN ADVANCE(4)
  ELSE IF lookahead = 35 THEN ADVANCE(316)
  ELSE IF lookahead = 39 THEN ADVANCE(18)
  ELSE IF lookahead = 44 THEN ADVANCE(345)
  ELSE IF lookahead = 45 THEN ADVANCE(26)
  ELSE IF lookahead = 98 THEN ADVANCE(29)
  ELSE IF lookahead = 99 THEN ADVANCE(137)
  ELSE IF lookahead = 100 THEN ADVANCE(118)
  ELSE IF lookahead = 103 THEN ADVANCE(218)
  ELSE IF lookahead = 104 THEN ADVANCE(41)
  ELSE IF lookahead = 105 THEN ADVANCE(201)
  ELSE IF lookahead = 108 THEN ADVANCE(89)
  ELSE IF lookahead = 110 THEN ADVANCE(205)
  ELSE IF lookahead = 111 THEN ADVANCE(197)
  ELSE IF lookahead = 114 THEN ADVANCE(15)
  ELSE IF lookahead = 115 THEN ADVANCE(95)
  ELSE IF lookahead = 116 THEN ADVANCE(88)
  ELSE IF lookahead = 117 THEN ADVANCE(192)
  ELSE IF lookahead = 119 THEN ADVANCE(92)
  ELSE IF lookahead = 123 THEN ADVANCE(353)
  ELSE IF lookahead = 125 THEN ADVANCE(354)
  ELSE IF lookahead = 9 \/ lookahead = 10 \/ lookahead = 13 \/ lookahead = 32 THEN SKIP(313)
  ELSE END_STATE
\* case 331 of ts_lex, had the two quotes read so far not been accepted as a string
ts_lex_331_no_accept(lookahead, eof) ==
  ACCEPT_TOKEN(NoToken,
    IF lookahead = 34 THEN ADVANCE(10)
    ELSE END_STATE)
\* case 331 of ts_lex
ts_lex_331(lookahead, eof) ==
  ACCEPT_TOKEN(aux_sym_string_token1,
    IF lookahead = 34 THEN ADVANCE(10)
    ELSE END_STATE)
\* case 3 of ts_lex, had a digit started a number there as in case 0
ts_lex_3_digit_number(lookahead, eof) ==
  IF lookahead = 34 THEN ADVANCE(4)
  ELSE IF lookahead = 35 THEN ADVANCE(315)
  ELSE IF lookahead = 39 THEN ADVANCE(18)
  ELSE IF lookahead = 45 THEN ADVANCE(327)
  ELSE IF lookahead = 111 THEN ADVANCE(323)
  ELSE IF lookahead = 114 THEN ADVANCE(318)
  ELSE IF lookahead = 119 THEN ADVANCE(321)
  ELSE IF lookahead = 123 THEN ADVANCE(353)
  ELSE IF lookahead = 9 \/ lookahead = 10 \/ lookahead = 13 \/ lookahead = 32 THEN SKIP(3)
  ELSE IF (48 <= lookahead /\ lookahead <= 57) THEN ADVANCE(329)
  ELSE IF lookahead = 58 \/ (65 <= lookahead /\ lookahead <= 90) \/ lookahead = 95 \/ (97 <= lookahead /\ lookahead <= 122) THEN ADVANCE(328)
  ELSE END_STATE
\* case 3 of ts_lex
ts_lex_3(lookahead, eof) ==
  IF lookahead = 34 THEN ADVANCE(4)
  ELSE IF lookahead = 35 THEN ADVANCE(315)
  ELSE IF lookahead = 39 THEN ADVANCE(18)
  ELSE IF lookahead = 45 THEN ADVANCE(327)
  ELSE IF lookahead = 111 THEN ADVANCE(323)
  ELSE IF lookahead = 114 THEN ADVANCE(318)
  ELSE IF lookahead = 119 THEN ADVANCE(321)
  ELSE IF lookahead = 123 THEN ADVANCE(353)
  ELSE IF lookahead = 9 \/ lookahead = 10 \/ lookahead = 13 \/ lookahead = 32 THEN SKIP(3)
  ELSE IF (48 <= lookahead /\ lookahead <= 57) THEN ADVANCE(327)
  ELSE IF lookahead = 58 \/ (65 <= lookahead /\ lookahead <= 90) \/ lookahead = 95 \/ (97 <= lookahead /\ lookahead <= 122) THEN ADVANCE(328)
  ELSE END_STATE
\* case 358 of ts_lex, had `do` ended there whatever follows it
ts_lex_358_keyword_prefix(lookahead, eof) ==
  ACCEPT_TOKEN(anon_sym_do,
    IF lookahead = 35 \/ lookahead = 45 \/ (48 <= lookahead /\ lookahead <= 58) \/ (65 <= lookahead /\ lookahead <= 90) \/ lookahead = 95 \/ (97 <= lookahead /\ lookahead <= 122) THEN END_STATE
    ELSE END_STATE)
\* case 358 of ts_lex
ts_lex_358(lookahead, eof) ==
  ACCEPT_TOKEN(anon_sym_do,
    IF lookahead = 35 \/ lookahead = 45 \/ (48 <= lookahead /\ lookahead <= 58) \/ (65 <= lookahead /\ lookahead <= 90) \/ lookahead = 95 \/ (97 <= lookahead /\ lookahead <= 122) THEN ADVANCE(328)
    ELSE END_STATE)
ts_lex(state, lookahead, eof) ==
  CASE state = 0 -> ts_lex_0(lookahead, eof)
    [] state = 1 -> ts_lex_1(lookahead, eof)
    [] state = 2 ->
       (IF lookahead = 34 THEN ADVANCE(4)
        ELSE IF lookahead = 35 THEN ADVANCE(315)
        ELSE IF lookahead = 39 THEN ADVANCE(18)
        ELSE IF lookahead = 45 THEN ADVANCE(327)
        ELSE IF lookahead = 100 THEN ADVANCE(325)
        ELSE IF lookahead = 105 THEN ADVANCE(320)
        ELSE IF lookahead = 114 THEN ADVANCE(318)
        ELSE IF lookahead = 123 THEN ADVANCE(353)
        ELSE IF lookahead = 125 THEN ADVANCE(354)
        ELSE IF lookahead = 9 \/ lookahead = 10 \/ lookahead = 13 \/ lookahead = 32 THEN SKIP(2)
        ELSE IF (48 <= lookahead /\ lookahead <= 57) THEN ADVANCE(327)
        ELSE IF lookahead = 58 \/ (65 <= lookahead /\ lookahead <= 90) \/ lookahead = 95 \/ (97 <= lookahead /\ lookahead <= 122) THEN ADVANCE(328)
        ELSE END_STATE)
    [] state = 3 -> ts_lex_3(lookahead, eof)
    [] state = 4 ->
       (IF lookahead = 34 THEN ADVANCE(331)
        ELSE IF lookahead = 92 THEN ADVANCE(311)
        ELSE IF lookahead # 0 /\ lookahead # 10 THEN ADVANCE(5)
        ELSE END_STATE)
    [] state = 5 ->
       (IF lookahead = 34 THEN ADVANCE(330)
        ELSE IF lookahead = 92 THEN ADVANCE(311)
        ELSE IF lookahead # 0 /\ lookahead # 10 THEN ADVANCE(5)
        ELSE END_STATE)
    [] state = 6 ->
       (IF lookahead = 34 THEN ADVANCE(7)
        ELSE END_STATE)
    [] state = 7 ->
       (IF lookahead = 34 THEN ADVANCE(16)
        ELSE IF lookahead # 0 THEN ADVANCE(7)
        ELSE END_STATE)
    [] state = 8 -> ts_lex_8(lookahead, eof)
    [] state = 9 -> ts_lex_9(lookahead, eof)
    [] state = 10 -> ts_lex_10(lookahead, eof)
    [] state = 11 -> ts_lex_11(lookahead, eof)
    [] state = 12 ->
       (IF lookahead = 34 THEN ADVANCE(9)
        ELSE IF lookahead = 92 THEN ADVANCE(309)
        ELSE IF lookahead # 0 THEN ADVANCE(10)
        ELSE END_STATE)
    [] state = 13 ->
       (IF lookahead = 35 THEN ADVANCE(316)
        ELSE IF lookahead = 99 THEN ADVANCE(213)
        ELSE IF lookahead = 105 THEN ADVANCE(191)
        ELSE IF lookahead = 111 THEN ADVANCE(226)
        ELSE IF lookahead = 114 THEN ADVANCE(123)
        ELSE IF lookahead = 115 THEN ADVANCE(284)
        ELSE IF lookahead = 9 \/ lookahead = 10 \/ lookahead = 13 \/ lookahead = 32 THEN SKIP(13)
        ELSE END_STATE)
    [] state = 14 ->
       (IF lookahead = 35 THEN ADVANCE(6)
        ELSE IF lookahead = 97 THEN ADVANCE(193)
        ELSE IF lookahead = 101 THEN ADVANCE(40)
        ELSE IF lookahead = 111 THEN ADVANCE(209)
        ELSE END_STATE)
    [] state = 15 ->
       (IF lookahead = 35 THEN ADVANCE(6)
        ELSE IF lookahead = 101 THEN ADVANCE(228)
        ELSE IF lookahead = 111 THEN ADVANCE(208)
        ELSE END_STATE)
    [] state = 16 ->
       (IF lookahead = 35 THEN ADVANCE(338)
        ELSE IF lookahead # 0 THEN ADVANCE(7)
        ELSE END_STATE)
    [] state = 17 -> ts_lex_17(lookahead, eof)
    [] state = 18 ->
       (IF lookahead = 39 THEN ADVANCE(333)
        ELSE IF lookahead = 92 THEN ADVANCE(312)
        ELSE IF lookahead # 0 /\ lookahead # 10 THEN ADVANCE(19)
        ELSE END_STATE)
    [] state = 19 ->
       (IF lookahead = 39 THEN ADVANCE(332)
        ELSE IF lookahead = 92 THEN ADVANCE(312)
        ELSE IF lookahead # 0 /\ lookahead # 10 THEN ADVANCE(19)
        ELSE END_STATE)
    [] state = 20 ->
       (IF lookahead = 39 THEN ADVANCE(23)
        ELSE IF lookahead = 92 THEN ADVANCE(310)
        ELSE IF lookahead # 0 THEN ADVANCE(20)
        ELSE END_STATE)
    [] state = 21 ->
       (IF lookahead = 39 THEN ADVANCE(336)
        ELSE IF lookahead # 0 THEN ADVANCE(20)
        ELSE END_STATE)
    [] state = 22 ->
       (IF lookahead = 39 THEN ADVANCE(337)
        ELSE IF lookahead # 0 THEN ADVANCE(20)
        ELSE END_STATE)
    [] state = 23 ->
       (IF lookahead = 39 THEN ADVANCE(21)
        ELSE IF lookahead # 0 THEN ADVANCE(20)
        ELSE END_STATE)
    [] state = 24 ->
       (IF lookahead = 39 THEN ADVANCE(22)
        ELSE IF lookahead = 92 THEN ADVANCE(310)
        ELSE IF lookahead # 0 THEN ADVANCE(20)
        ELSE END_STATE)
    [] state = 25 ->
       (IF lookahead = 45 THEN ADVANCE(85)
        ELSE END_STATE)
    [] state = 26 ->
       (IF lookahead = 62 THEN ADVANCE(372)
        ELSE END_STATE)
    [] state = 27 -> ts_lex_27(lookahead, eof)
    [] state = 28 ->
       (IF lookahead = 95 THEN ADVANCE(127)
        ELSE END_STATE)
    [] state = 29 ->
       (IF lookahead = 97 THEN ADVANCE(248)
        ELSE IF lookahead = 111 THEN ADVANCE(235)
        ELSE END_STATE)
    [] state = 30 ->
       (IF lookahead = 97 THEN ADVANCE(173)
        ELSE IF lookahead = 108 THEN ADVANCE(34)
        ELSE END_STATE)
    [] state = 31 ->
       (IF lookahead = 97 THEN ADVANCE(223)
        ELSE END_STATE)
    [] state = 32 ->
       (IF lookahead = 97 THEN ADVANCE(60)
        ELSE IF lookahead = 105 THEN ADVANCE(256)
        ELSE IF lookahead = 111 THEN ADVANCE(298)
        ELSE END_STATE)
    [] state = 33 ->
       (IF lookahead = 97 THEN ADVANCE(181)
        ELSE IF lookahead = 111 THEN ADVANCE(234)
        ELSE IF lookahead = 112 THEN ADVANCE(52)
        ELSE END_STATE)
    [] state = 34 ->
       (IF lookahead = 97 THEN ADVANCE(128)
        ELSE END_STATE)
    [] state = 35 ->
       (IF lookahead = 97 THEN ADVANCE(240)
        ELSE END_STATE)
    [] state = 36 ->
       (IF lookahead = 97 THEN ADVANCE(51)
        ELSE END_STATE)
    [] state = 37 ->
       (IF lookahead = 97 THEN ADVANCE(308)
        ELSE END_STATE)
    [] state = 38 ->
       (IF lookahead = 97 THEN ADVANCE(167)
        ELSE END_STATE)
    [] state = 39 ->
       (IF lookahead = 97 THEN ADVANCE(163)
        ELSE END_STATE)
    [] state = 40 ->
       (IF lookahead = 97 THEN ADVANCE(58)
        ELSE IF lookahead = 113 THEN ADVANCE(294)
        ELSE IF lookahead = 115 THEN ADVANCE(280)
        ELSE END_STATE)
    [] state = 41 ->
       (IF lookahead = 97 THEN ADVANCE(222)
        ELSE END_STATE)
    [] state = 42 ->
       (IF lookahead = 97 THEN ADVANCE(306)
        ELSE END_STATE)
    [] state = 43 ->
       (IF lookahead = 97 THEN ADVANCE(164)
        ELSE END_STATE)
    [] state = 44 ->
       (IF lookahead = 97 THEN ADVANCE(165)
        ELSE END_STATE)
    [] state = 45 ->
       (IF lookahead = 97 THEN ADVANCE(158)
        ELSE END_STATE)
    [] state = 46 ->
       (IF lookahead = 97 THEN ADVANCE(134)
        ELSE END_STATE)
    [] state = 47 ->
       (IF lookahead = 97 THEN ADVANCE(276)
        ELSE END_STATE)
    [] state = 48 ->
       (IF lookahead = 97 THEN ADVANCE(290)
        ELSE END_STATE)
    [] state = 49 ->
       (IF lookahead = 97 THEN ADVANCE(239)
        ELSE END_STATE)
    [] state = 50 ->
       (IF lookahead = 98 THEN ADVANCE(142)
        ELSE IF lookahead = 99 THEN ADVANCE(278)
        ELSE END_STATE)
    [] state = 51 ->
       (IF lookahead = 98 THEN ADVANCE(171)
        ELSE END_STATE)
    [] state = 52 ->
       (IF lookahead = 99 THEN ADVANCE(387)
        ELSE END_STATE)
    [] state = 53 ->
       (IF lookahead = 99 THEN ADVANCE(362)
        ELSE END_STATE)
    [] state = 54 ->
       (IF lookahead = 99 THEN ADVANCE(361)
        ELSE END_STATE)
    [] state = 55 ->
       (IF lookahead = 99 THEN ADVANCE(48)
        ELSE END_STATE)
    [] state = 56 ->
       (IF lookahead = 99 THEN ADVANCE(74)
        ELSE IF lookahead = 108 THEN ADVANCE(303)
        ELSE END_STATE)
    [] state = 57 ->
       (IF lookahead = 99 THEN ADVANCE(273)
        ELSE END_STATE)
    [] state = 58 ->
       (IF lookahead = 99 THEN ADVANCE(141)
        ELSE END_STATE)
    [] state = 59 ->
       (IF lookahead = 99 THEN ADVANCE(289)
        ELSE END_STATE)
    [] state = 60 ->
       (IF lookahead = 100 THEN ADVANCE(388)
        ELSE END_STATE)
    [] state = 61 ->
       (IF lookahead = 100 THEN ADVANCE(370)
        ELSE END_STATE)
    [] state = 62 ->
       (IF lookahead = 100 THEN ADVANCE(375)
        ELSE END_STATE)
    [] state = 63 ->
       (IF lookahead = 100 THEN ADVANCE(382)
        ELSE END_STATE)
    [] state = 64 ->
       (IF lookahead = 100 THEN ADVANCE(413)
        ELSE END_STATE)
    [] state = 65 ->
       (IF lookahead = 100 THEN ADVANCE(364)
        ELSE END_STATE)
    [] state = 66 ->
       (IF lookahead = 100 THEN ADVANCE(405)
        ELSE END_STATE)
    [] state = 67 ->
       (IF lookahead = 100 THEN ADVANCE(383)
        ELSE END_STATE)
    [] state = 68 ->
       (IF lookahead = 100 THEN ADVANCE(28)
        ELSE END_STATE)
    [] state = 69 ->
       (IF lookahead = 100 THEN ADVANCE(404)
        ELSE END_STATE)
    [] state = 70 ->
       (IF lookahead = 100 THEN ADVANCE(135)
        ELSE END_STATE)
    [] state = 71 ->
       (IF lookahead = 100 THEN ADVANCE(274)
        ELSE END_STATE)
    [] state = 72 ->
       (IF lookahead = 100 THEN ADVANCE(212)
        ELSE END_STATE)
    [] state = 73 ->
       (IF lookahead = 101 THEN ADVANCE(360)
        ELSE END_STATE)
    [] state = 74 ->
       (IF lookahead = 101 THEN ADVANCE(350)
        ELSE END_STATE)
    [] state = 75 ->
       (IF lookahead = 101 THEN ADVANCE(339)
        ELSE END_STATE)
    [] state = 76 ->
       (IF lookahead = 101 THEN ADVANCE(340)
        ELSE END_STATE)
    [] state = 77 ->
       (IF lookahead = 101 THEN ADVANCE(392)
        ELSE END_STATE)
    [] state = 78 ->
       (IF lookahead = 101 THEN ADVANCE(380)
        ELSE IF lookahead = 117 THEN ADVANCE(249)
        ELSE END_STATE)
    [] state = 79 ->
       (IF lookahead = 101 THEN ADVANCE(385)
        ELSE END_STATE)
    [] state = 80 ->
       (IF lookahead = 101 THEN ADVANCE(395)
        ELSE END_STATE)
    [] state = 81 ->
       (IF lookahead = 101 THEN ADVANCE(401)
        ELSE END_STATE)
    [] state = 82 ->
       (IF lookahead = 101 THEN ADVANCE(414)
        ELSE END_STATE)
    [] state = 83 ->
       (IF lookahead = 101 THEN ADVANCE(396)
        ELSE END_STATE)
    [] state = 84 ->
       (IF lookahead = 101 THEN ADVANCE(377)
        ELSE END_STATE)
    [] state = 85 ->
       (IF lookahead = 101 THEN ADVANCE(125)
        ELSE END_STATE)
    [] state = 86 ->
       (IF lookahead = 101 THEN ADVANCE(408)
        ELSE END_STATE)
    [] state = 87 ->
       (IF lookahead = 101 THEN ADVANCE(302)
        ELSE IF lookahead = 105 THEN ADVANCE(180)
        ELSE IF lookahead = 114 THEN ADVANCE(144)
        ELSE END_STATE)
    [] state = 88 ->
       (IF lookahead = 101 THEN ADVANCE(302)
        ELSE IF lookahead = 114 THEN ADVANCE(143)
        ELSE END_STATE)
    [] state = 89 ->
       (IF lookahead = 101 THEN ADVANCE(265)
        ELSE END_STATE)
    [] state = 90 ->
       (IF lookahead = 101 THEN ADVANCE(265)
        ELSE IF lookahead = 111 THEN ADVANCE(55)
        ELSE END_STATE)
    [] state = 91 ->
       (IF lookahead = 101 THEN ADVANCE(254)
        ELSE IF lookahead = 105 THEN ADVANCE(38)
        ELSE IF lookahead = 111 THEN ADVANCE(357)
        ELSE END_STATE)
    [] state = 92 ->
       (IF lookahead = 101 THEN ADVANCE(70)
        ELSE IF lookahead = 104 THEN ADVANCE(98)
        ELSE IF lookahead = 105 THEN ADVANCE(71)
        ELSE END_STATE)
    [] state = 93 ->
       (IF lookahead = 101 THEN ADVANCE(187)
        ELSE IF lookahead = 116 THEN ADVANCE(150)
        ELSE END_STATE)
    [] state = 94 ->
       (IF lookahead = 101 THEN ADVANCE(266)
        ELSE IF lookahead = 112 THEN ADVANCE(145)
        ELSE IF lookahead = 116 THEN ADVANCE(35)
        ELSE END_STATE)
    [] state = 95 ->
       (IF lookahead = 101 THEN ADVANCE(266)
        ELSE IF lookahead = 112 THEN ADVANCE(145)
        ELSE IF lookahead = 116 THEN ADVANCE(49)
        ELSE END_STATE)
    [] state = 96 ->
       (IF lookahead = 101 THEN ADVANCE(176)
        ELSE END_STATE)
    [] state = 97 ->
       (IF lookahead = 101 THEN ADVANCE(236)
        ELSE END_STATE)
    [] state = 98 ->
       (IF lookahead = 101 THEN ADVANCE(188)
        ELSE END_STATE)
    [] state = 99 ->
       (IF lookahead = 101 THEN ADVANCE(61)
        ELSE END_STATE)
    [] state = 100 ->
       (IF lookahead = 101 THEN ADVANCE(198)
        ELSE END_STATE)
    [] state = 101 ->
       (IF lookahead = 101 THEN ADVANCE(62)
        ELSE END_STATE)
    [] state = 102 ->
       (IF lookahead = 101 THEN ADVANCE(230)
        ELSE END_STATE)
    [] state = 103 ->
       (IF lookahead = 101 THEN ADVANCE(63)
        ELSE END_STATE)
    [] state = 104 ->
       (IF lookahead = 101 THEN ADVANCE(231)
        ELSE END_STATE)
    [] state = 105 ->
       (IF lookahead = 101 THEN ADVANCE(64)
        ELSE END_STATE)
    [] state = 106 ->
       (IF lookahead = 101 THEN ADVANCE(182)
        ELSE END_STATE)
    [] state = 107 ->
       (IF lookahead = 101 THEN ADVANCE(232)
        ELSE END_STATE)
    [] state = 108 ->
       (IF lookahead = 101 THEN ADVANCE(65)
        ELSE END_STATE)
    [] state = 109 ->
       (IF lookahead = 101 THEN ADVANCE(66)
        ELSE END_STATE)
    [] state = 110 ->
       (IF lookahead = 101 THEN ADVANCE(233)
        ELSE END_STATE)
    [] state = 111 ->
       (IF lookahead = 101 THEN ADVANCE(67)
        ELSE END_STATE)
    [] state = 112 ->
       (IF lookahead = 101 THEN ADVANCE(68)
        ELSE END_STATE)
    [] state = 113 ->
       (IF lookahead = 101 THEN ADVANCE(271)
        ELSE END_STATE)
    [] state = 114 ->
       (IF lookahead = 101 THEN ADVANCE(69)
        ELSE END_STATE)
    [] state = 115 ->
       (IF lookahead = 101 THEN ADVANCE(260)
        ELSE END_STATE)
    [] state = 116 ->
       (IF lookahead = 101 THEN ADVANCE(185)
        ELSE END_STATE)
    [] state = 117 ->
       (IF lookahead = 101 THEN ADVANCE(241)
        ELSE END_STATE)
    [] state = 118 ->
       (IF lookahead = 101 THEN ADVANCE(257)
        ELSE IF lookahead = 111 THEN ADVANCE(200)
        ELSE END_STATE)
    [] state = 119 ->
       (IF lookahead = 101 THEN ADVANCE(258)
        ELSE END_STATE)
    [] state = 120 ->
       (IF lookahead = 101 THEN ADVANCE(57)
        ELSE END_STATE)
    [] state = 121 ->
       (IF lookahead = 101 THEN ADVANCE(199)
        ELSE END_STATE)
    [] state = 122 ->
       (IF lookahead = 101 THEN ADVANCE(286)
        ELSE END_STATE)
    [] state = 123 ->
       (IF lookahead = 101 THEN ADVANCE(229)
        ELSE IF lookahead = 111 THEN ADVANCE(220)
        ELSE END_STATE)
    [] state = 124 ->
       (IF lookahead = 102 THEN ADVANCE(355)
        ELSE IF lookahead = 110 THEN ADVANCE(416)
        ELSE IF lookahead = 116 THEN ADVANCE(96)
        ELSE END_STATE)
    [] state = 125 ->
       (IF lookahead = 102 THEN ADVANCE(126)
        ELSE END_STATE)
    [] state = 126 ->
       (IF lookahead = 102 THEN ADVANCE(120)
        ELSE END_STATE)
    [] state = 127 ->
       (IF lookahead = 102 THEN ADVANCE(169)
        ELSE IF lookahead = 105 THEN ADVANCE(287)
        ELSE END_STATE)
    [] state = 128 ->
       (IF lookahead = 103 THEN ADVANCE(411)
        ELSE END_STATE)
    [] state = 129 ->
       (IF lookahead = 103 THEN ADVANCE(394)
        ELSE END_STATE)
    [] state = 130 ->
       (IF lookahead = 103 THEN ADVANCE(412)
        ELSE END_STATE)
    [] state = 131 ->
       (IF lookahead = 103 THEN ADVANCE(295)
        ELSE END_STATE)
    [] state = 132 ->
       (IF lookahead = 103 THEN ADVANCE(242)
        ELSE END_STATE)
    [] state = 133 ->
       (IF lookahead = 103 THEN ADVANCE(136)
        ELSE END_STATE)
    [] state = 134 ->
       (IF lookahead = 103 THEN ADVANCE(251)
        ELSE END_STATE)
    [] state = 135 ->
       (IF lookahead = 103 THEN ADVANCE(79)
        ELSE END_STATE)
    [] state = 136 ->
       (IF lookahead = 103 THEN ADVANCE(107)
        ELSE END_STATE)
    [] state = 137 ->
       (IF lookahead = 104 THEN ADVANCE(115)
        ELSE END_STATE)
    [] state = 138 ->
       (IF lookahead = 104 THEN ADVANCE(115)
        ELSE IF lookahead = 108 THEN ADVANCE(219)
        ELSE IF lookahead = 111 THEN ADVANCE(175)
        ELSE IF lookahead = 117 THEN ADVANCE(255)
        ELSE END_STATE)
    [] state = 139 ->
       (IF lookahead = 104 THEN ADVANCE(386)
        ELSE END_STATE)
    [] state = 140 ->
       (IF lookahead = 104 THEN ADVANCE(117)
        ELSE END_STATE)
    [] state = 141 ->
       (IF lookahead = 104 THEN ADVANCE(105)
        ELSE END_STATE)
    [] state = 142 ->
       (IF lookahead = 105 THEN ADVANCE(172)
        ELSE END_STATE)
    [] state = 143 ->
       (IF lookahead = 105 THEN ADVANCE(133)
        ELSE END_STATE)
    [] state = 144 ->
       (IF lookahead = 105 THEN ADVANCE(133)
        ELSE IF lookahead = 117 THEN ADVANCE(75)
        ELSE END_STATE)
    [] state = 145 ->
       (IF lookahead = 105 THEN ADVANCE(194)
        ELSE END_STATE)
    [] state = 146 ->
       (IF lookahead = 105 THEN ADVANCE(227)
        ELSE END_STATE)
    [] state = 147 ->
       (IF lookahead = 105 THEN ADVANCE(262)
        ELSE END_STATE)
    [] state = 148 ->
       (IF lookahead = 105 THEN ADVANCE(59)
        ELSE END_STATE)
    [] state = 149 ->
       (IF lookahead = 105 THEN ADVANCE(267)
        ELSE END_STATE)
    [] state = 150 ->
       (IF lookahead = 105 THEN ADVANCE(214)
        ELSE END_STATE)
    [] state = 151 ->
       (IF lookahead = 105 THEN ADVANCE(195)
        ELSE END_STATE)
    [] state = 152 ->
       (IF lookahead = 105 THEN ADVANCE(196)
        ELSE END_STATE)
    [] state = 153 ->
       (IF lookahead = 105 THEN ADVANCE(288)
        ELSE END_STATE)
    [] state = 154 ->
       (IF lookahead = 105 THEN ADVANCE(277)
        ELSE END_STATE)
    [] state = 155 ->
       (IF lookahead = 105 THEN ADVANCE(299)
        ELSE END_STATE)
    [] state = 156 ->
       (IF lookahead = 105 THEN ADVANCE(216)
        ELSE END_STATE)
    [] state = 157 ->
       (IF lookahead = 105 THEN ADVANCE(217)
        ELSE END_STATE)
    [] state = 158 ->
       (IF lookahead = 105 THEN ADVANCE(204)
        ELSE END_STATE)
    [] state = 159 ->
       (IF lookahead = 105 THEN ADVANCE(245)
        ELSE END_STATE)
    [] state = 160 ->
       (IF lookahead = 105 THEN ADVANCE(246)
        ELSE END_STATE)
    [] state = 161 ->
       (IF lookahead = 105 THEN ADVANCE(247)
        ELSE END_STATE)
    [] state = 162 ->
       (IF lookahead = 108 THEN ADVANCE(303)
        ELSE END_STATE)
    [] state = 163 ->
       (IF lookahead = 108 THEN ADVANCE(402)
        ELSE END_STATE)
    [] state = 164 ->
       (IF lookahead = 108 THEN ADVANCE(368)
        ELSE END_STATE)
    [] state = 165 ->
       (IF lookahead = 108 THEN ADVANCE(406)
        ELSE END_STATE)
    [] state = 166 ->
       (IF lookahead = 108 THEN ADVANCE(37)
        ELSE IF lookahead = 111 THEN ADVANCE(243)
        ELSE IF lookahead = 114 THEN ADVANCE(207)
        ELSE END_STATE)
    [] state = 167 ->
       (IF lookahead = 108 THEN ADVANCE(211)
        ELSE END_STATE)
    [] state = 168 ->
       (IF lookahead = 108 THEN ADVANCE(42)
        ELSE END_STATE)
    [] state = 169 ->
       (IF lookahead = 108 THEN ADVANCE(46)
        ELSE END_STATE)
    [] state = 170 ->
       (IF lookahead = 108 THEN ADVANCE(122)
        ELSE END_STATE)
    [] state = 171 ->
       (IF lookahead = 108 THEN ADVANCE(84)
        ELSE END_STATE)
    [] state = 172 ->
       (IF lookahead = 108 THEN ADVANCE(154)
        ELSE END_STATE)
    [] state = 173 ->
       (IF lookahead = 108 THEN ADVANCE(261)
        ELSE END_STATE)
    [] state = 174 ->
       (IF lookahead = 109 THEN ADVANCE(225)
        ELSE END_STATE)
    [] state = 175 ->
       (IF lookahead = 109 THEN ADVANCE(225)
        ELSE IF lookahead = 110 THEN ADVANCE(281)
        ELSE END_STATE)
    [] state = 176 ->
       (IF lookahead = 109 THEN ADVANCE(376)
        ELSE END_STATE)
    [] state = 177 ->
       (IF lookahead = 109 THEN ADVANCE(359)
        ELSE END_STATE)
    [] state = 178 ->
       (IF lookahead = 109 THEN ADVANCE(389)
        ELSE END_STATE)
    [] state = 179 ->
       (IF lookahead = 109 THEN ADVANCE(391)
        ELSE END_STATE)
    [] state = 180 ->
       (IF lookahead = 109 THEN ADVANCE(151)
        ELSE END_STATE)
    [] state = 181 ->
       (IF lookahead = 109 THEN ADVANCE(73)
        ELSE END_STATE)
    [] state = 182 ->
       (IF lookahead = 109 THEN ADVANCE(252)
        ELSE END_STATE)
    [] state = 183 ->
       (IF lookahead = 109 THEN ADVANCE(253)
        ELSE END_STATE)
    [] state = 184 ->
       (IF lookahead = 109 THEN ADVANCE(43)
        ELSE END_STATE)
    [] state = 185 ->
       (IF lookahead = 109 THEN ADVANCE(121)
        ELSE END_STATE)
    [] state = 186 ->
       (IF lookahead = 110 THEN ADVANCE(56)
        ELSE IF lookahead = 112 THEN ADVANCE(93)
        ELSE IF lookahead = 118 THEN ADVANCE(97)
        ELSE END_STATE)
    [] state = 187 ->
       (IF lookahead = 110 THEN ADVANCE(381)
        ELSE END_STATE)
    [] state = 188 ->
       (IF lookahead = 110 THEN ADVANCE(351)
        ELSE END_STATE)
    [] state = 189 ->
       (IF lookahead = 110 THEN ADVANCE(397)
        ELSE END_STATE)
    [] state = 190 ->
       (IF lookahead = 110 THEN ADVANCE(363)
        ELSE END_STATE)
    [] state = 191 ->
       (IF lookahead = 110 THEN ADVANCE(415)
        ELSE END_STATE)
    [] state = 192 ->
       (IF lookahead = 110 THEN ADVANCE(259)
        ELSE END_STATE)
    [] state = 193 ->
       (IF lookahead = 110 THEN ADVANCE(72)
        ELSE END_STATE)
    [] state = 194 ->
       (IF lookahead = 110 THEN ADVANCE(202)
        ELSE END_STATE)
    [] state = 195 ->
       (IF lookahead = 110 THEN ADVANCE(129)
        ELSE END_STATE)
    [] state = 196 ->
       (IF lookahead = 110 THEN ADVANCE(130)
        ELSE END_STATE)
    [] state = 197 ->
       (IF lookahead = 110 THEN ADVANCE(162)
        ELSE END_STATE)
    [] state = 198 ->
       (IF lookahead = 110 THEN ADVANCE(282)
        ELSE END_STATE)
    [] state = 199 ->
       (IF lookahead = 110 THEN ADVANCE(272)
        ELSE END_STATE)
    [] state = 200 ->
       (IF lookahead = 110 THEN ADVANCE(86)
        ELSE END_STATE)
    [] state = 201 ->
       (IF lookahead = 110 THEN ADVANCE(300)
        ELSE IF lookahead = 116 THEN ADVANCE(96)
        ELSE END_STATE)
    [] state = 202 ->
       (IF lookahead = 110 THEN ADVANCE(104)
        ELSE END_STATE)
    [] state = 203 ->
       (IF lookahead = 110 THEN ADVANCE(44)
        ELSE END_STATE)
    [] state = 204 ->
       (IF lookahead = 110 THEN ADVANCE(110)
        ELSE END_STATE)
    [] state = 205 ->
       (IF lookahead = 111 THEN ADVANCE(234)
        ELSE IF lookahead = 112 THEN ADVANCE(52)
        ELSE END_STATE)
    [] state = 206 ->
       (IF lookahead = 111 THEN ADVANCE(292)
        ELSE END_STATE)
    [] state = 207 ->
       (IF lookahead = 111 THEN ADVANCE(132)
        ELSE END_STATE)
    [] state = 208 ->
       (IF lookahead = 111 THEN ADVANCE(177)
        ELSE END_STATE)
    [] state = 209 ->
       (IF lookahead = 111 THEN ADVANCE(177)
        ELSE IF lookahead = 117 THEN ADVANCE(285)
        ELSE END_STATE)
    [] state = 210 ->
       (IF lookahead = 111 THEN ADVANCE(178)
        ELSE END_STATE)
    [] state = 211 ->
       (IF lookahead = 111 THEN ADVANCE(131)
        ELSE END_STATE)
    [] state = 212 ->
       (IF lookahead = 111 THEN ADVANCE(179)
        ELSE END_STATE)
    [] state = 213 ->
       (IF lookahead = 111 THEN ADVANCE(174)
        ELSE END_STATE)
    [] state = 214 ->
       (IF lookahead = 111 THEN ADVANCE(203)
        ELSE END_STATE)
    [] state = 215 ->
       (IF lookahead = 111 THEN ADVANCE(237)
        ELSE END_STATE)
    [] state = 216 ->
       (IF lookahead = 111 THEN ADVANCE(189)
        ELSE END_STATE)
    [] state = 217 ->
       (IF lookahead = 111 THEN ADVANCE(190)
        ELSE END_STATE)
    [] state = 218 ->
       (IF lookahead = 111 THEN ADVANCE(39)
        ELSE IF lookahead = 114 THEN ADVANCE(206)
        ELSE END_STATE)
    [] state = 219 ->
       (IF lookahead = 111 THEN ADVANCE(264)
        ELSE END_STATE)
    [] state = 220 ->
       (IF lookahead = 111 THEN ADVANCE(183)
        ELSE END_STATE)
    [] state = 221 ->
       (IF lookahead = 112 THEN ADVANCE(403)
        ELSE END_STATE)
    [] state = 222 ->
       (IF lookahead = 112 THEN ADVANCE(224)
        ELSE END_STATE)
    [] state = 223 ->
       (IF lookahead = 112 THEN ADVANCE(224)
        ELSE IF lookahead = 115 THEN ADVANCE(410)
        ELSE END_STATE)
    [] state = 224 ->
       (IF lookahead = 112 THEN ADVANCE(304)
        ELSE END_STATE)
    [] state = 225 ->
       (IF lookahead = 112 THEN ADVANCE(170)
        ELSE END_STATE)
    [] state = 226 ->
       (IF lookahead = 112 THEN ADVANCE(279)
        ELSE END_STATE)
    [] state = 227 ->
       (IF lookahead = 112 THEN ADVANCE(291)
        ELSE END_STATE)
    [] state = 228 ->
       (IF lookahead = 113 THEN ADVANCE(296)
        ELSE END_STATE)
    [] state = 229 ->
       (IF lookahead = 113 THEN ADVANCE(297)
        ELSE END_STATE)
    [] state = 230 ->
       (IF lookahead = 114 THEN ADVANCE(400)
        ELSE END_STATE)
    [] state = 231 ->
       (IF lookahead = 114 THEN ADVANCE(384)
        ELSE END_STATE)
    [] state = 232 ->
       (IF lookahead = 114 THEN ADVANCE(347)
        ELSE END_STATE)
    [] state = 233 ->
       (IF lookahead = 114 THEN ADVANCE(379)
        ELSE END_STATE)
    [] state = 234 ->
       (IF lookahead = 114 THEN ADVANCE(184)
        ELSE IF lookahead = 119 THEN ADVANCE(140)
        ELSE END_STATE)
    [] state = 235 ->
       (IF lookahead = 114 THEN ADVANCE(99)
        ELSE END_STATE)
    [] state = 236 ->
       (IF lookahead = 114 THEN ADVANCE(168)
        ELSE END_STATE)
    [] state = 237 ->
       (IF lookahead = 114 THEN ADVANCE(307)
        ELSE END_STATE)
    [] state = 238 ->
       (IF lookahead = 114 THEN ADVANCE(148)
        ELSE END_STATE)
    [] state = 239 ->
       (IF lookahead = 114 THEN ADVANCE(270)
        ELSE END_STATE)
    [] state = 240 ->
       (IF lookahead = 114 THEN ADVANCE(270)
        ELSE IF lookahead = 116 THEN ADVANCE(78)
        ELSE END_STATE)
    [] state = 241 ->
       (IF lookahead = 114 THEN ADVANCE(81)
        ELSE END_STATE)
    [] state = 242 ->
       (IF lookahead = 114 THEN ADVANCE(119)
        ELSE END_STATE)
    [] state = 243 ->
       (IF lookahead = 114 THEN ADVANCE(283)
        ELSE END_STATE)
    [] state = 244 ->
       (IF lookahead = 114 THEN ADVANCE(101)
        ELSE END_STATE)
    [] state = 245 ->
       (IF lookahead = 114 THEN ADVANCE(109)
        ELSE END_STATE)
    [] state = 246 ->
       (IF lookahead = 114 THEN ADVANCE(112)
        ELSE END_STATE)
    [] state = 247 ->
       (IF lookahead = 114 THEN ADVANCE(114)
        ELSE END_STATE)
    [] state = 248 ->
       (IF lookahead = 114 THEN ADVANCE(244)
        ELSE END_STATE)
    [] state = 249 ->
       (IF lookahead = 115 THEN ADVANCE(25)
        ELSE END_STATE)
    [] state = 250 ->
       (IF lookahead = 115 THEN ADVANCE(417)
        ELSE END_STATE)
    [] state = 251 ->
       (IF lookahead = 115 THEN ADVANCE(373)
        ELSE END_STATE)
    [] state = 252 ->
       (IF lookahead = 115 THEN ADVANCE(374)
        ELSE END_STATE)
    [] state = 253 ->
       (IF lookahead = 115 THEN ADVANCE(393)
        ELSE END_STATE)
    [] state = 254 ->
       (IF lookahead = 115 THEN ADVANCE(53)
        ELSE END_STATE)
    [] state = 255 ->
       (IF lookahead = 115 THEN ADVANCE(275)
        ELSE END_STATE)
    [] state = 256 ->
       (IF lookahead = 115 THEN ADVANCE(263)
        ELSE END_STATE)
    [] state = 257 ->
       (IF lookahead = 115 THEN ADVANCE(54)
        ELSE END_STATE)
    [] state = 258 ->
       (IF lookahead = 115 THEN ADVANCE(250)
        ELSE END_STATE)
    [] state = 259 ->
       (IF lookahead = 115 THEN ADVANCE(113)
        ELSE END_STATE)
    [] state = 260 ->
       (IF lookahead = 115 THEN ADVANCE(269)
        ELSE END_STATE)
    [] state = 261 ->
       (IF lookahead = 115 THEN ADVANCE(76)
        ELSE END_STATE)
    [] state = 262 ->
       (IF lookahead = 115 THEN ADVANCE(153)
        ELSE END_STATE)
    [] state = 263 ->
       (IF lookahead = 115 THEN ADVANCE(152)
        ELSE END_STATE)
    [] state = 264 ->
       (IF lookahead = 115 THEN ADVANCE(103)
        ELSE END_STATE)
    [] state = 265 ->
       (IF lookahead = 116 THEN ADVANCE(341)
        ELSE END_STATE)
    [] state = 266 ->
       (IF lookahead = 116 THEN ADVANCE(342)
        ELSE END_STATE)
    [] state = 267 ->
       (IF lookahead = 116 THEN ADVANCE(371)
        ELSE END_STATE)
    [] state = 268 ->
       (IF lookahead = 116 THEN ADVANCE(367)
        ELSE END_STATE)
    [] state = 269 ->
       (IF lookahead = 116 THEN ADVANCE(398)
        ELSE END_STATE)
    [] state = 270 ->
       (IF lookahead = 116 THEN ADVANCE(409)
        ELSE END_STATE)
    [] state = 271 ->
       (IF lookahead = 116 THEN ADVANCE(366)
        ELSE END_STATE)
    [] state = 272 ->
       (IF lookahead = 116 THEN ADVANCE(390)
        ELSE END_STATE)
    [] state = 273 ->
       (IF lookahead = 116 THEN ADVANCE(407)
        ELSE END_STATE)
    [] state = 274 ->
       (IF lookahead = 116 THEN ADVANCE(139)
        ELSE END_STATE)
    [] state = 275 ->
       (IF lookahead = 116 THEN ADVANCE(210)
        ELSE END_STATE)
    [] state = 276 ->
       (IF lookahead = 116 THEN ADVANCE(293)
        ELSE END_STATE)
    [] state = 277 ->
       (IF lookahead = 116 THEN ADVANCE(305)
        ELSE END_STATE)
    [] state = 278 ->
       (IF lookahead = 116 THEN ADVANCE(155)
        ELSE END_STATE)
    [] state = 279 ->
       (IF lookahead = 116 THEN ADVANCE(150)
        ELSE END_STATE)
    [] state = 280 ->
       (IF lookahead = 116 THEN ADVANCE(238)
        ELSE END_STATE)
    [] state = 281 ->
       (IF lookahead = 116 THEN ADVANCE(45)
        ELSE END_STATE)
    [] state = 282 ->
       (IF lookahead = 116 THEN ADVANCE(215)
        ELSE END_STATE)
    [] state = 283 ->
       (IF lookahead = 116 THEN ADVANCE(36)
        ELSE END_STATE)
    [] state = 284 ->
       (IF lookahead = 116 THEN ADVANCE(47)
        ELSE END_STATE)
    [] state = 285 ->
       (IF lookahead = 116 THEN ADVANCE(77)
        ELSE END_STATE)
    [] state = 286 ->
       (IF lookahead = 116 THEN ADVANCE(82)
        ELSE END_STATE)
    [] state = 287 ->
       (IF lookahead = 116 THEN ADVANCE(106)
        ELSE END_STATE)
    [] state = 288 ->
       (IF lookahead = 116 THEN ADVANCE(108)
        ELSE END_STATE)
    [] state = 289 ->
       (IF lookahead = 116 THEN ADVANCE(111)
        ELSE END_STATE)
    [] state = 290 ->
       (IF lookahead = 116 THEN ADVANCE(156)
        ELSE END_STATE)
    [] state = 291 ->
       (IF lookahead = 116 THEN ADVANCE(157)
        ELSE END_STATE)
    [] state = 292 ->
       (IF lookahead = 117 THEN ADVANCE(221)
        ELSE END_STATE)
    [] state = 293 ->
       (IF lookahead = 117 THEN ADVANCE(249)
        ELSE END_STATE)
    [] state = 294 ->
       (IF lookahead = 117 THEN ADVANCE(159)
        ELSE END_STATE)
    [] state = 295 ->
       (IF lookahead = 117 THEN ADVANCE(83)
        ELSE END_STATE)
    [] state = 296 ->
       (IF lookahead = 117 THEN ADVANCE(160)
        ELSE END_STATE)
    [] state = 297 ->
       (IF lookahead = 117 THEN ADVANCE(161)
        ELSE END_STATE)
    [] state = 298 ->
       (IF lookahead = 118 THEN ADVANCE(116)
        ELSE END_STATE)
    [] state = 299 ->
       (IF lookahead = 118 THEN ADVANCE(80)
        ELSE END_STATE)
    [] state = 300 ->
       (IF lookahead = 118 THEN ADVANCE(100)
        ELSE END_STATE)
    [] state = 301 ->
       (IF lookahead = 120 THEN ADVANCE(149)
        ELSE END_STATE)
    [] state = 302 ->
       (IF lookahead = 120 THEN ADVANCE(268)
        ELSE END_STATE)
    [] state = 303 ->
       (IF lookahead = 121 THEN ADVANCE(348)
        ELSE END_STATE)
    [] state = 304 ->
       (IF lookahead = 121 THEN ADVANCE(369)
        ELSE END_STATE)
    [] state = 305 ->
       (IF lookahead = 121 THEN ADVANCE(378)
        ELSE END_STATE)
    [] state = 306 ->
       (IF lookahead = 121 THEN ADVANCE(365)
        ELSE END_STATE)
    [] state = 307 ->
       (IF lookahead = 121 THEN ADVANCE(399)
        ELSE END_STATE)
    [] state = 308 ->
       (IF lookahead = 121 THEN ADVANCE(102)
        ELSE END_STATE)
    [] state = 309 ->
       (IF lookahead # 0 /\ lookahead # 34 /\ lookahead # 92 THEN ADVANCE(10)
        ELSE IF lookahead = 34 THEN ADVANCE(12)
        ELSE IF lookahead = 92 THEN ADVANCE(309)
        ELSE END_STATE)
    [] state = 310 ->
       (IF lookahead # 0 /\ lookahead # 39 /\ lookahead # 92 THEN ADVANCE(20)
        ELSE IF lookahead = 39 THEN ADVANCE(24)
        ELSE IF lookahead = 92 THEN ADVANCE(310)
        ELSE END_STATE)
    [] state = 311 -> ts_lex_311(lookahead, eof)
    [] state = 312 ->
       (IF lookahead # 0 /\ lookahead # 10 THEN ADVANCE(19)
        ELSE END_STATE)
    [] state = 313 -> ts_lex_313(lookahead, eof)
    [] state = 314 ->
       (ACCEPT_TOKEN(ts_builtin_sym_end,
          END_STATE))
    [] state = 315 ->
       (ACCEPT_TOKEN(sym_comment,
          IF lookahead = 35 \/ lookahead = 45 \/ (48 <= lookahead /\ lookahead <= 58) \/ (65 <= lookahead /\ lookahead <= 90) \/ lookahead = 95 \/ (97 <= lookahead /\ lookahead <= 122) THEN ADVANCE(315)
          ELSE IF lookahead # 0 /\ lookahead # 10 THEN ADVANCE(316)
          ELSE END_STATE))
    [] state = 316 -> ts_lex_316(lookahead, eof)
    [] state = 317 ->
       (ACCEPT_TOKEN(sym_identifier,
          IF lookahead = 34 THEN ADVANCE(7)
          ELSE IF lookahead = 35 \/ lookahead = 45 \/ (48 <= lookahead /\ lookahead <= 58) \/ (65 <= lookahead /\ lookahead <= 90) \/ lookahead = 95 \/ (97 <= lookahead /\ lookahead <= 122) THEN ADVANCE(328)
          ELSE END_STATE))
    [] state = 318 ->
       (ACCEPT_TOKEN(sym_identifier,
          IF lookahead = 35 THEN ADVANCE(317)
          ELSE IF lookahead = 45 \/ (48 <= lookahead /\ lookahead <= 58) \/ (65 <= lookahead /\ lookahead <= 90) \/ lookahead = 95 \/ (97 <= lookahead /\ lookahead <= 122) THEN ADVANCE(328)
          ELSE END_STATE))
    [] state = 319 ->
       (ACCEPT_TOKEN(sym_identifier,
          IF lookahead = 101 THEN ADVANCE(324)
          ELSE IF lookahead = 35 \/ lookahead = 45 \/ (48 <= lookahead /\ lookahead <= 58) \/ (65 <= lookahead /\ lookahead <= 90) \/ lookahead = 95 \/ (97 <= lookahead /\ lookahead <= 122) THEN ADVANCE(328)
          ELSE END_STATE))
    [] state = 320 ->
       (ACCEPT_TOKEN(sym_identifier,
          IF lookahead = 102 THEN ADVANCE(356)
          ELSE IF lookahead = 35 \/ lookahead = 45 \/ (48 <= lookahead /\ lookahead <= 58) \/ (65 <= lookahead /\ lookahead <= 90) \/ lookahead = 95 \/ (97 <= lookahead /\ lookahead <= 122) THEN ADVANCE(328)
          ELSE END_STATE))
    [] state = 321 ->
       (ACCEPT_TOKEN(sym_identifier,
          IF lookahead = 104 THEN ADVANCE(319)
          ELSE IF lookahead = 35 \/ lookahead = 45 \/ (48 <= lookahead /\ lookahead <= 58) \/ (65 <= lookahead /\ lookahead <= 90) \/ lookahead = 95 \/ (97 <= lookahead /\ lookahead <= 122) THEN ADVANCE(328)
          ELSE END_STATE))
    [] state = 322 ->
       (ACCEPT_TOKEN(sym_identifier,
          IF lookahead = 108 THEN ADVANCE(326)
          ELSE IF lookahead = 35 \/ lookahead = 45 \/ (48 <= lookahead /\ lookahead <= 58) \/ (65 <= lookahead /\ lookahead <= 90) \/ lookahead = 95 \/ (97 <= lookahead /\ lookahead <= 122) THEN ADVANCE(328)
          ELSE END_STATE))
    [] state = 323 ->
       (ACCEPT_TOKEN(sym_identifier,
          IF lookahead = 110 THEN ADVANCE(322)
          ELSE IF lookahead = 35 \/ lookahead = 45 \/ (48 <= lookahead /\ lookahead <= 58) \/ (65 <= lookahead /\ lookahead <= 90) \/ lookahead = 95 \/ (97 <= lookahead /\ lookahead <= 122) THEN ADVANCE(328)
          ELSE END_STATE))
    [] state = 324 ->
       (ACCEPT_TOKEN(sym_identifier,
          IF lookahead = 110 THEN ADVANCE(352)
          ELSE IF lookahead = 35 \/ lookahead = 45 \/ (48 <= lookahead /\ lookahead <= 58) \/ (65 <= lookahead /\ lookahead <= 90) \/ lookahead = 95 \/ (97 <= lookahead /\ lookahead <= 122) THEN ADVANCE(328)
          ELSE END_STATE))
    [] state = 325 ->
       (ACCEPT_TOKEN(sym_identifier,
          IF lookahead = 111 THEN ADVANCE(358)
          ELSE IF lookahead = 35 \/ lookahead = 45 \/ (48 <= lookahead /\ lookahead <= 58) \/ (65 <= lookahead /\ lookahead <= 90) \/ lookahead = 95 \/ (97 <= lookahead /\ lookahead <= 122) THEN ADVANCE(328)
          ELSE END_STATE))
    [] state = 326 ->
       (ACCEPT_TOKEN(sym_identifier,
          IF lookahead = 121 THEN ADVANCE(349)
          ELSE IF lookahead = 35 \/ lookahead = 45 \/ (48 <= lookahead /\ lookahead <= 58) \/ (65 <= lookahead /\ lookahead <= 90) \/ lookahead = 95 \/ (97 <= lookahead /\ lookahead <= 122) THEN ADVANCE(328)
          ELSE END_STATE))
    [] state = 327 ->
       (ACCEPT_TOKEN(sym_identifier,
          IF (48 <= lookahead /\ lookahead <= 57) THEN ADVANCE(327)
          ELSE IF lookahead = 35 \/ lookahead = 45 \/ lookahead = 58 \/ (65 <= lookahead /\ lookahead <= 90) \/ lookahead = 95 \/ (97 <= lookahead /\ lookahead <= 122) THEN ADVANCE(328)
          ELSE END_STATE))
    [] state = 328 -> ts_lex_328(lookahead, eof)
    [] state = 329 ->
       (ACCEPT_TOKEN(sym_number,
          IF (48 <= lookahead /\ lookahead <= 57) THEN ADVANCE(329)
          ELSE END_STATE))
    [] state = 330 ->
       (ACCEPT_TOKEN(aux_sym_string_token1,
          END_STATE))
    [] state = 331 -> ts_lex_331(lookahead, eof)
    [] state = 332 ->
       (ACCEPT_TOKEN(aux_sym_string_token2,
          END_STATE))
    [] state = 333 ->
       (ACCEPT_TOKEN(aux_sym_string_token2,
          IF lookahead = 39 THEN ADVANCE(20)
          ELSE END_STATE))
    [] state = 334 -> ts_lex_334(lookahead, eof)
    [] state = 335 -> ts_lex_335(lookahead, eof)
    [] state = 336 ->
       (ACCEPT_TOKEN(aux_sym_string_token4,
          END_STATE))
    [] state = 337 ->
       (ACCEPT_TOKEN(aux_sym_string_token4,
          IF lookahead = 39 THEN ADVANCE(336)
          ELSE IF lookahead # 0 THEN ADVANCE(20)
          ELSE END_STATE))
    [] state = 338 ->
       (ACCEPT_TOKEN(aux_sym_string_token5,
          END_STATE))
    [] state = 339 ->
       (ACCEPT_TOKEN(anon_sym_true,
          END_STATE))
    [] state = 340 ->
       (ACCEPT_TOKEN(anon_sym_false,
          END_STATE))
    [] state = 341 ->
       (ACCEPT_TOKEN(anon_sym_let,
          END_STATE))
    [] state = 342 ->
       (ACCEPT_TOKEN(anon_sym_set,
          END_STATE))
    [] state = 343 ->
       (ACCEPT_TOKEN(anon_sym_EQ,
          END_STATE))
    [] state = 344 ->
       (ACCEPT_TOKEN(anon_sym_LPAREN,
          END_STATE))
    [] state = 345 ->
       (ACCEPT_TOKEN(anon_sym_COMMA,
          END_STATE))
    [] state = 346 ->
       (ACCEPT_TOKEN(anon_sym_RPAREN,
          END_STATE))
    [] state = 347 ->
       (ACCEPT_TOKEN(anon_sym_trigger,
          END_STATE))
    [] state = 348 ->
       (ACCEPT_TOKEN(anon_sym_only,
          END_STATE))
    [] state = 349 ->
       (ACCEPT_TOKEN(anon_sym_only,
          IF lookahead = 35 \/ lookahead = 45 \/ (48 <= lookahead /\ lookahead <= 58) \/ (65 <= lookahead /\ lookahead <= 90) \/ lookahead = 95 \/ (97 <= lookahead /\ lookahead <= 122) THEN ADVANCE(328)
          ELSE END_STATE))
    [] state = 350 ->
       (ACCEPT_TOKEN(anon_sym_once,
          END_STATE))
    [] state = 351 ->
       (ACCEPT_TOKEN(anon_sym_when,
          END_STATE))
    [] state = 352 ->
       (ACCEPT_TOKEN(anon_sym_when,
          IF lookahead = 35 \/ lookahead = 45 \/ (48 <= lookahead /\ lookahead <= 58) \/ (65 <= lookahead /\ lookahead <= 90) \/ lookahead = 95 \/ (97 <= lookahead /\ lookahead <= 122) THEN ADVANCE(328)
          ELSE END_STATE))
    [] state = 353 ->
       (ACCEPT_TOKEN(anon_sym_LBRACE,
          END_STATE))
    [] state = 354 ->
       (ACCEPT_TOKEN(anon_sym_RBRACE,
          END_STATE))
    [] state = 355 ->
       (ACCEPT_TOKEN(anon_sym_if,
          END_STATE))
    [] state = 356 ->
       (ACCEPT_TOKEN(anon_sym_if,
          IF lookahead = 35 \/ lookahead = 45 \/ (48 <= lookahead /\ lookahead <= 58) \/ (65 <= lookahead /\ lookahead <= 90) \/ lookahead = 95 \/ (97 <= lookahead /\ lookahead <= 122) THEN ADVANCE(328)
          ELSE END_STATE))
    [] state = 357 ->
       (ACCEPT_TOKEN(anon_sym_do,
          END_STATE))
    [] state = 358 -> ts_lex_358(lookahead, eof)
    [] state = 359 ->
       (ACCEPT_TOKEN(anon_sym_room,
          END_STATE))
    [] state = 360 ->
       (ACCEPT_TOKEN(anon_sym_name,
          END_STATE))
    [] state = 361 ->
       (ACCEPT_TOKEN(anon_sym_desc,
          END_STATE))
    [] state = 362 -> ts_lex_362(lookahead, eof)
    [] state = 363 ->
       (ACCEPT_TOKEN(anon_sym_description,
          END_STATE))
    [] state = 364 ->
       (ACCEPT_TOKEN(anon_sym_visited,
          END_STATE))
    [] state = 365 ->
       (ACCEPT_TOKEN(anon_sym_overlay,
          END_STATE))
    [] state = 366 ->
       (ACCEPT_TOKEN(anon_sym_unset,
          END_STATE))
    [] state = 367 ->
       (ACCEPT_TOKEN(anon_sym_text,
          END_STATE))
    [] state = 368 ->
       (ACCEPT_TOKEN(anon_sym_normal,
          END_STATE))
    [] state = 369 ->
       (ACCEPT_TOKEN(anon_sym_happy,
          END_STATE))
    [] state = 370 ->
       (ACCEPT_TOKEN(anon_sym_bored,
          END_STATE))
    [] state = 371 ->
       (ACCEPT_TOKEN(anon_sym_exit,
          END_STATE))
    [] state = 372 ->
       (ACCEPT_TOKEN(anon_sym_DASH_GT,
          END_STATE))
    [] state = 373 ->
       (ACCEPT_TOKEN(anon_sym_required_flags,
          END_STATE))
    [] state = 374 ->
       (ACCEPT_TOKEN(anon_sym_required_items,
          END_STATE))
    [] state = 375 ->
       (ACCEPT_TOKEN(anon_sym_barred,
          END_STATE))
    [] state = 376 ->
       (ACCEPT_TOKEN(anon_sym_item,
          END_STATE))
    [] state = 377 ->
       (ACCEPT_TOKEN(anon_sym_portable,
          END_STATE))
    [] state = 378 ->
       (ACCEPT_TOKEN(anon_sym_ability,
          END_STATE))
    [] state = 379 ->
       (ACCEPT_TOKEN(anon_sym_container,
          END_STATE))
    [] state = 380 ->
       (ACCEPT_TOKEN(anon_sym_state,
          END_STATE))
    [] state = 381 ->
       (ACCEPT_TOKEN(anon_sym_open,
          END_STATE))
    [] state = 382 ->
       (ACCEPT_TOKEN(anon_sym_closed,
          END_STATE))
    [] state = 383 ->
       (ACCEPT_TOKEN(anon_sym_restricted,
          END_STATE))
    [] state = 384 ->
       (ACCEPT_TOKEN(anon_sym_spinner,
          END_STATE))
    [] state = 385 ->
       (ACCEPT_TOKEN(anon_sym_wedge,
          END_STATE))
    [] state = 386 ->
       (ACCEPT_TOKEN(anon_sym_width,
          END_STATE))
    [] state = 387 ->
       (ACCEPT_TOKEN(anon_sym_npc,
          END_STATE))
    [] state = 388 ->
       (ACCEPT_TOKEN(anon_sym_mad,
          END_STATE))
    [] state = 389 ->
       (ACCEPT_TOKEN(anon_sym_custom,
          END_STATE))
    [] state = 390 ->
       (ACCEPT_TOKEN(anon_sym_movement,
          END_STATE))
    [] state = 391 ->
       (ACCEPT_TOKEN(anon_sym_random,
          END_STATE))
    [] state = 392 ->
       (ACCEPT_TOKEN(anon_sym_route,
          END_STATE))
    [] state = 393 ->
       (ACCEPT_TOKEN(anon_sym_rooms,
          END_STATE))
    [] state = 394 ->
       (ACCEPT_TOKEN(anon_sym_timing,
          END_STATE))
    [] state = 395 ->
       (ACCEPT_TOKEN(anon_sym_active,
          END_STATE))
    [] state = 396 ->
       (ACCEPT_TOKEN(anon_sym_dialogue,
          END_STATE))
    [] state = 397 ->
       (ACCEPT_TOKEN(anon_sym_location,
          END_STATE))
    [] state = 398 ->
       (ACCEPT_TOKEN(anon_sym_chest,
          END_STATE))
    [] state = 399 ->
       (ACCEPT_TOKEN(anon_sym_inventory,
          END_STATE))
    [] state = 400 ->
       (ACCEPT_TOKEN(anon_sym_player,
          END_STATE))
    [] state = 401 ->
       (ACCEPT_TOKEN(anon_sym_nowhere,
          END_STATE))
    [] state = 402 ->
       (ACCEPT_TOKEN(anon_sym_goal,
          END_STATE))
    [] state = 403 ->
       (ACCEPT_TOKEN(anon_sym_group,
          END_STATE))
    [] state = 404 ->
       (ACCEPT_TOKEN(anon_sym_required,
          END_STATE))
    [] state = 405 ->
       (ACCEPT_TOKEN(anon_sym_required,
          IF lookahead = 95 THEN ADVANCE(127)
          ELSE END_STATE))
    [] state = 406 ->
       (ACCEPT_TOKEN(anon_sym_optional,
          END_STATE))
    [] state = 407 ->
       (ACCEPT_TOKEN(anon_sym_status_DASHeffect,
          END_STATE))
    [] state = 408 ->
       (ACCEPT_TOKEN(anon_sym_done,
          END_STATE))
    [] state = 409 ->
       (ACCEPT_TOKEN(anon_sym_start,
          END_STATE))
    [] state = 410 ->
       (ACCEPT_TOKEN(anon_sym_has,
          END_STATE))
    [] state = 411 ->
       (ACCEPT_TOKEN(anon_sym_flag,
          END_STATE))
    [] state = 412 ->
       (ACCEPT_TOKEN(anon_sym_missing,
          END_STATE))
    [] state = 413 ->
       (ACCEPT_TOKEN(anon_sym_reached,
          END_STATE))
    [] state = 414 ->
       (ACCEPT_TOKEN(anon_sym_complete,
          END_STATE))
    [] state = 415 ->
       (ACCEPT_TOKEN(anon_sym_in,
          END_STATE))
    [] state = 416 ->
       (ACCEPT_TOKEN(anon_sym_in,
          IF lookahead = 118 THEN ADVANCE(100)
          ELSE END_STATE))
    [] state = 417 ->
       (ACCEPT_TOKEN(anon_sym_progress,
          END_STATE))
    [] OTHER -> [op |-> "RETURN_FALSE", state |-> 0, accept |-> NoToken]

\* ---- ts_lex_modes: lex state per parse state (index = parse state + 1) ----
\* ts_lex_modes with the keyword lex state 0 for parse state 219 (after `npc`)
ts_lex_modes_npc_keywords ==
  <<
  0, 0, 313, 0, 0, 0, 313, 313, 313, 0, 0, 0, 0, 0, 0, 0, 0, 0, 2, 0,
  0, 1, 1, 1, 2, 1, 3, 313, 313, 313, 313, 313, 313, 313, 3, 2, 1, 0, 0, 0,
  0, 0, 0, 0, 1, 0, 3, 0, 0, 0, 313, 0, 0, 0, 313, 313, 0, 0, 1, 0,
  0, 0, 0, 0, 0, 0, 0, 0, 0, 0, 0, 0, 0, 0, 0, 0, 0, 0, 0, 0,
  0, 0, 0, 0, 0, 0, 0, 0, 0, 0, 0, 0, 0, 0, 0, 0, 0, 0, 0, 0,
  0, 0, 0, 0, 0, 0, 0, 1, 0, 0, 0, 0, 0, 1, 0, 0, 0, 0, 0, 0,
  0, 0, 0, 0, 0, 0, 0, 0, 0, 0, 0, 313, 313, 313, 0, 313, 313, 313, 0, 0,
  313, 0, 0, 0, 313, 0, 0, 13, 0, 0, 0, 0, 0, 0, 0, 0, 0, 0, 0, 0,
  0, 0, 0, 0, 0, 0, 0, 0, 0, 0, 0, 0, 0, 0, 0, 0, 0, 0, 0, 13,
  0, 0, 0, 0, 0, 17, 17, 0, 17, 0, 0, 17, 17, 17, 17, 0, 17, 17, 0, 0,
  0, 0, 0, 0, 17, 0, 0, 17, 17, 0, 17, 0, 0, 17, 0, 17, 13, 0, 17, 0,
  17, 17, 17 >>
ts_lex_modes ==
  <<
  0, 0, 313, 0, 0, 0, 313, 313, 313, 0, 0, 0, 0, 0, 0, 0, 0, 0, 2, 0,
  0, 1, 1, 1, 2, 1, 3, 313, 313, 313, 313, 313, 313, 313, 3, 2, 1, 0, 0, 0,
  0, 0, 0, 0, 1, 0, 3, 0, 0, 0, 313, 0, 0, 0, 313, 313, 0, 0, 1, 0,
  0, 0, 0, 0, 0, 0, 0, 0, 0, 0, 0, 0, 0, 0, 0, 0, 0, 0, 0, 0,
  0, 0, 0, 0, 0, 0, 0, 0, 0, 0, 0, 0, 0, 0, 0, 0, 0, 0, 0, 0,
  0, 0, 0, 0, 0, 0, 0, 1, 0, 0, 0, 0, 0, 1, 0, 0, 0, 0, 0, 0,
  0, 0, 0, 0, 0, 0, 0, 0, 0, 0, 0, 313, 313, 313, 0, 313, 313, 313, 0, 0,
  313, 0, 0, 0, 313, 0, 0, 13, 0, 0, 0, 0, 0, 0, 0, 0, 0, 0, 0, 0,
  0, 0, 0, 0, 0, 0, 0, 0, 0, 0, 0, 0, 0, 0, 0, 0, 0, 0, 0, 13,
  0, 0, 0, 0, 0, 17, 17, 0, 17, 0, 0, 17, 17, 17, 17, 0, 17, 17, 0, 0,
  0, 0, 0, 0, 17, 0, 0, 17, 17, 0, 17, 0, 0, 17, 0, 17, 13, 0, 17, 17,
  17, 17, 17 >>

\* ---- ts_symbol_metadata: which symbols are visible / named in the tree ----
ts_symbol_metadata(symbol) ==
  [visible |-> symbol \in {sym_comment, sym_identifier, sym_number, anon_sym_true, anon_sym_false, anon_sym_let, anon_sym_set, anon_sym_EQ, anon_sym_LPAREN, anon_sym_COMMA, anon_sym_RPAREN, anon_sym_trigger, anon_sym_only, anon_sym_once, anon_sym_when, anon_sym_LBRACE, anon_sym_RBRACE, anon_sym_if, anon_sym_do, anon_sym_room, anon_sym_name, anon_sym_desc, anon_sym_description, anon_sym_visited, anon_sym_overlay, anon_sym_unset, anon_sym_text, anon_sym_normal, anon_sym_happy, anon_sym_bored, anon_sym_exit, anon_sym_DASH_GT, anon_sym_required_flags, anon_sym_required_items, anon_sym_barred, anon_sym_item, anon_sym_portable, anon_sym_ability, anon_sym_container, anon_sym_state, anon_sym_open, anon_sym_closed, anon_sym_restricted, anon_sym_spinner, anon_sym_wedge, anon_sym_width, anon_sym_npc, anon_sym_mad, anon_sym_custom, anon_sym_movement, anon_sym_random, anon_sym_route, anon_sym_rooms, anon_sym_timing, anon_sym_active, anon_sym_dialogue, anon_sym_location, anon_sym_chest, anon_sym_inventory, anon_sym_player, anon_sym_nowhere, anon_sym_goal, anon_sym_group, anon_sym_required, anon_sym_optional, anon_sym_status_DASHeffect, anon_sym_done, anon_sym_start, anon_sym_has, anon_sym_flag, anon_sym_missing, anon_sym_reached, anon_sym_complete, anon_sym_in, anon_sym_progress, sym_program, sym_string, sym_boolean, sym_set_decl, sym_set_list, sym_trigger, sym_trigger_mod, sym_trigger_block, sym_trigger_stmt, sym_if_block, sym_do_stmt, sym_braced_block, sym_cond_line, sym_cond_line_ext, sym_room_def, sym_room_block, sym_room_stmt, sym_room_name, sym_room_desc, sym_room_visited, sym_overlay_stmt, sym_overlay_block, sym_overlay_entry, sym_exit_stmt, sym_exit_block, sym_exit_attr, sym_exit_required_flags, sym_exit_required_items, sym_exit_barred, sym_item_def, sym_item_block, sym_item_stmt, sym_item_name, sym_item_desc, sym_item_portable, sym_item_text, sym_item_location, sym_item_ability, sym_item_container_state, sym_item_restricted, sym_spinner_def, sym_spinner_block, sym_wedge_stmt, sym_npc_def, sym_npc_block, sym_npc_stmt, sym_npc_name, sym_npc_desc, sym_npc_state, sym_movement_stmt, sym_dialogue_stmt, sym_location, sym_goal_def, sym_goal_stmt, sym_goal_desc, sym_goal_group, sym_goal_done, sym_goal_start, sym_goal_cond},
   named |-> symbol \in {ts_builtin_sym_end, sym_comment, sym_identifier, sym_number, sym_program, sym_string, sym_boolean, sym_set_decl, sym_set_list, sym_trigger, sym_trigger_mod, sym_trigger_block, sym_trigger_stmt, sym_if_block, sym_do_stmt, sym_braced_block, sym_cond_line, sym_cond_line_ext, sym_room_def, sym_room_block, sym_room_stmt, sym_room_name, sym_room_desc, sym_room_visited, sym_overlay_stmt, sym_overlay_block, sym_overlay_entry, sym_exit_stmt, sym_exit_block, sym_exit_attr, sym_exit_required_flags, sym_exit_required_items, sym_exit_barred, sym_item_def, sym_item_block, sym_item_stmt, sym_item_name, sym_item_desc, sym_item_portable, sym_item_text, sym_item_location, sym_item_ability, sym_item_container_state, sym_item_restricted, sym_spinner_def, sym_spinner_block, sym_wedge_stmt, sym_npc_def, sym_npc_block, sym_npc_stmt, sym_npc_name, sym_npc_desc, sym_npc_state, sym_movement_stmt, sym_dialogue_stmt, sym_location, sym_goal_def, sym_goal_stmt, sym_goal_desc, sym_goal_group, sym_goal_done, sym_goal_start, sym_goal_cond}]

\* ---- ts_symbol_names: the spelling of each anonymous token, as code points ----
ts_symbol_names(symbol) ==
  CASE symbol = anon_sym_true -> <<116, 114, 117, 101>>  \* true
    [] symbol = anon_sym_false -> <<102, 97, 108, 115, 101>>  \* false
    [] symbol = anon_sym_let -> <<108, 101, 116>>  \* let
    [] symbol = anon_sym_set -> <<115, 101, 116>>  \* set
    [] symbol = anon_sym_EQ -> <<61>>  \* =
    [] symbol = anon_sym_LPAREN -> <<40>>  \* (
    [] symbol = anon_sym_COMMA -> <<44>>  \* ,
    [] symbol = anon_sym_RPAREN -> <<41>>  \* )
    [] symbol = anon_sym_trigger -> <<116, 114, 105, 103, 103, 101, 114>>  \* trigger
    [] symbol = anon_sym_only -> <<111, 110, 108, 121>>  \* only
    [] symbol = anon_sym_once -> <<111, 110, 99, 101>>  \* once
    [] symbol = anon_sym_when -> <<119, 104, 101, 110>>  \* when
    [] symbol = anon_sym_LBRACE -> <<123>>  \* {
    [] symbol = anon_sym_RBRACE -> <<125>>  \* }
    [] symbol = anon_sym_if -> <<105, 102>>  \* if
    [] symbol = anon_sym_do -> <<100, 111>>  \* do
    [] symbol = anon_sym_room -> <<114, 111, 111, 109>>  \* room
    [] symbol = anon_sym_name -> <<110, 97, 109, 101>>  \* name
    [] symbol = anon_sym_desc -> <<100, 101, 115, 99>>  \* desc
    [] symbol = anon_sym_description -> <<100, 101, 115, 99, 114, 105, 112, 116, 105, 111, 110>>  \* description
    [] symbol = anon_sym_visited -> <<118, 105, 115, 105, 116, 101, 100>>  \* visited
    [] symbol = anon_sym_overlay -> <<111, 118, 101, 114, 108, 97, 121>>  \* overlay
    [] symbol = anon_sym_unset -> <<117, 110, 115, 101, 116>>  \* unset
    [] symbol = anon_sym_text -> <<116, 101, 120, 116>>  \* text
    [] symbol = anon_sym_normal -> <<110, 111, 114, 109, 97, 108>>  \* normal
    [] symbol = anon_sym_happy -> <<104, 97, 112, 112, 121>>  \* happy
    [] symbol = anon_sym_bored -> <<98, 111, 114, 101, 100>>  \* bored
    [] symbol = anon_sym_exit -> <<101, 120, 105, 116>>  \* exit
    [] symbol = anon_sym_DASH_GT -> <<45, 62>>  \* ->
    [] symbol = anon_sym_required_flags -> <<114, 101, 113, 117, 105, 114, 101, 100, 95, 102, 108, 97, 103, 115>>  \* required_flags
    [] symbol = anon_sym_required_items -> <<114, 101, 113, 117, 105, 114, 101, 100, 95, 105, 116, 101, 109, 115>>  \* required_items
    [] symbol = anon_sym_barred -> <<98, 97, 114, 114, 101, 100>>  \* barred
    [] symbol = anon_sym_item -> <<105, 116, 101, 109>>  \* item
    [] symbol = anon_sym_portable -> <<112, 111, 114, 116, 97, 98, 108, 101>>  \* portable
    [] symbol = anon_sym_ability -> <<97, 98, 105, 108, 105, 116, 121>>  \* ability
    [] symbol = anon_sym_container -> <<99, 111, 110, 116, 97, 105, 110, 101, 114>>  \* container
    [] symbol = anon_sym_state -> <<115, 116, 97, 116, 101>>  \* state
    [] symbol = anon_sym_open -> <<111, 112, 101, 110>>  \* open
    [] symbol = anon_sym_closed -> <<99, 108, 111, 115, 101, 100>>  \* closed
    [] symbol = anon_sym_restricted -> <<114, 101, 115, 116, 114, 105, 99, 116, 101, 100>>  \* restricted
    [] symbol = anon_sym_spinner -> <<115, 112, 105, 110, 110, 101, 114>>  \* spinner
    [] symbol = anon_sym_wedge -> <<119, 101, 100, 103, 101>>  \* wedge
    [] symbol = anon_sym_width -> <<119, 105, 100, 116, 104>>  \* width
    [] symbol = anon_sym_npc -> <<110, 112, 99>>  \* npc
    [] symbol = anon_sym_mad -> <<109, 97, 100>>  \* mad
    [] symbol = anon_sym_custom -> <<99, 117, 115, 116, 111, 109>>  \* custom
    [] symbol = anon_sym_movement -> <<109, 111, 118, 101, 109, 101, 110, 116>>  \* movement
    [] symbol = anon_sym_random -> <<114, 97, 110, 100, 111, 109>>  \* random
    [] symbol = anon_sym_route -> <<114, 111, 117, 116, 101>>  \* route
    [] symbol = anon_sym_rooms -> <<114, 111, 111, 109, 115>>  \* rooms
    [] symbol = anon_sym_timing -> <<116, 105, 109, 105, 110, 103>>  \* timing
    [] symbol = anon_sym_active -> <<97, 99, 116, 105, 118, 101>>  \* active
    [] symbol = anon_sym_dialogue -> <<100, 105, 97, 108, 111, 103, 117, 101>>  \* dialogue
    [] symbol = anon_sym_location -> <<108, 111, 99, 97, 116, 105, 111, 110>>  \* location
    [] symbol = anon_sym_chest -> <<99, 104, 101, 115, 116>>  \* chest
    [] symbol = anon_sym_inventory -> <<105, 110, 118, 101, 110, 116, 111, 114, 121>>  \* inventory
    [] symbol = anon_sym_player -> <<112, 108, 97, 121, 101, 114>>  \* player
    [] symbol = anon_sym_nowhere -> <<110, 111, 119, 104, 101, 114, 101>>  \* nowhere
    [] symbol = anon_sym_goal -> <<103, 111, 97, 108>>  \* goal
    [] symbol = anon_sym_group -> <<103, 114, 111, 117, 112>>  \* group
    [] symbol = anon_sym_required -> <<114, 101, 113, 117, 105, 114, 101, 100>>  \* required
    [] symbol = anon_sym_optional -> <<111, 112, 116, 105, 111, 110, 97, 108>>  \* optional
    [] symbol = anon_sym_status_DASHeffect -> <<115, 116, 97, 116, 117, 115, 45, 101, 102, 102, 101, 99, 116>>  \* status-effect
    [] symbol = anon_sym_done -> <<100, 111, 110, 101>>  \* done
    [] symbol = anon_sym_start -> <<115, 116, 97, 114, 116>>  \* start
    [] symbol = anon_sym_has -> <<104, 97, 115>>  \* has
    [] symbol = anon_sym_flag -> <<102, 108, 97, 103>>  \* flag
    [] symbol = anon_sym_missing -> <<109, 105, 115, 115, 105, 110, 103>>  \* missing
    [] symbol = anon_sym_reached -> <<114, 101, 97, 99, 104, 101, 100>>  \* reached
    [] symbol = anon_sym_complete -> <<99, 111, 109, 112, 108, 101, 116, 101>>  \* complete
    [] symbol = anon_sym_in -> <<105, 110>>  \* in
    [] symbol = anon_sym_progress -> <<112, 114, 111, 103, 114, 101, 115, 115>>  \* progress
    [] OTHER -> << >>

\* ---- ts_parse_actions: action lists, indexed as in the source array ----
SHIFT(state_value) == [type |-> "SHIFT", state |-> state_value, symbol |-> 0, child_count |-> 0]
SHIFT_REPEAT(state_value) == [type |-> "SHIFT_REPEAT", state |-> state_value, symbol |-> 0, child_count |-> 0]
SHIFT_EXTRA == [type |-> "SHIFT_EXTRA", state |-> 0, symbol |-> 0, child_count |-> 0]
REDUCE(symbol_val, child_count_val) == [type |-> "REDUCE", state |-> 0, symbol |-> symbol_val, child_count |-> child_count_val]
RECOVER == [type |-> "RECOVER", state |-> 0, symbol |-> 0, child_count |-> 0]
ACCEPT_INPUT == [type |-> "ACCEPT_INPUT", state |-> 0, symbol |-> 0, child_count |-> 0]
ACTIONS_(id) == id
STATE_(id) == id

\* entry 200 of ts_parse_actions, had the shift been a competing SHIFT
ts_parse_actions_200_conflict ==
  << REDUCE(aux_sym_room_block_repeat1, 2), SHIFT(123) >>
\* entry 200 of ts_parse_actions
ts_parse_actions_200 ==
  << REDUCE(aux_sym_room_block_repeat1, 2), SHIFT_REPEAT(123) >>
ts_parse_actions(id) ==
  CASE id = 0 -> << >>
    [] id = 1 -> << RECOVER >>
    [] id = 3 -> << SHIFT_EXTRA >>
    [] id = 5 -> << REDUCE(sym_program, 0) >>
    [] id = 7 -> << SHIFT(212) >>
    [] id = 9 -> << SHIFT(113) >>
    [] id = 11 -> << SHIFT(222) >>
    [] id = 13 -> << SHIFT(221) >>
    [] id = 15 -> << SHIFT(220) >>
    [] id = 17 -> << SHIFT(219) >>
    [] id = 19 -> << SHIFT(218) >>
    [] id = 21 -> << REDUCE(sym_string, 1) >>
    [] id = 23 -> << REDUCE(sym_string, 1) >>
    [] id = 25 -> << SHIFT(89) >>
    [] id = 27 -> << SHIFT(127) >>
    [] id = 29 -> << SHIFT(114) >>
    [] id = 31 -> << SHIFT(114) >>
    [] id = 33 -> << SHIFT(128) >>
    [] id = 35 -> << SHIFT(168) >>
    [] id = 37 -> << SHIFT(186) >>
    [] id = 39 -> << SHIFT(182) >>
    [] id = 41 -> << SHIFT(146) >>
    [] id = 43 -> << SHIFT(132) >>
    [] id = 45 -> << REDUCE(aux_sym_item_block_repeat1, 2) >>
    [] id = 47 -> << REDUCE(aux_sym_item_block_repeat1, 2), SHIFT_REPEAT(127) >>
    [] id = 50 -> << REDUCE(aux_sym_item_block_repeat1, 2), SHIFT_REPEAT(114) >>
    [] id = 53 -> << REDUCE(aux_sym_item_block_repeat1, 2), SHIFT_REPEAT(114) >>
    [] id = 56 -> << REDUCE(aux_sym_item_block_repeat1, 2), SHIFT_REPEAT(128) >>
    [] id = 59 -> << REDUCE(aux_sym_item_block_repeat1, 2), SHIFT_REPEAT(168) >>
    [] id = 62 -> << REDUCE(aux_sym_item_block_repeat1, 2), SHIFT_REPEAT(186) >>
    [] id = 65 -> << REDUCE(aux_sym_item_block_repeat1, 2), SHIFT_REPEAT(182) >>
    [] id = 68 -> << REDUCE(aux_sym_item_block_repeat1, 2), SHIFT_REPEAT(146) >>
    [] id = 71 -> << REDUCE(aux_sym_item_block_repeat1, 2), SHIFT_REPEAT(132) >>
    [] id = 74 -> << SHIFT(80) >>
    [] id = 76 -> << REDUCE(sym_goal_def, 4) >>
    [] id = 78 -> << SHIFT(116) >>
    [] id = 80 -> << SHIFT(147) >>
    [] id = 82 -> << SHIFT(202) >>
    [] id = 84 -> << SHIFT(205) >>
    [] id = 86 -> << REDUCE(sym_goal_def, 3) >>
    [] id = 88 -> << REDUCE(aux_sym_goal_def_repeat1, 2) >>
    [] id = 90 -> << REDUCE(aux_sym_goal_def_repeat1, 2), SHIFT_REPEAT(116) >>
    [] id = 93 -> << REDUCE(aux_sym_goal_def_repeat1, 2), SHIFT_REPEAT(147) >>
    [] id = 96 -> << REDUCE(aux_sym_goal_def_repeat1, 2), SHIFT_REPEAT(202) >>
    [] id = 99 -> << REDUCE(aux_sym_goal_def_repeat1, 2), SHIFT_REPEAT(205) >>
    [] id = 102 -> << SHIFT(69) >>
    [] id = 104 -> << SHIFT(118) >>
    [] id = 106 -> << SHIFT(117) >>
    [] id = 108 -> << SHIFT(117) >>
    [] id = 110 -> << SHIFT(138) >>
    [] id = 112 -> << SHIFT(178) >>
    [] id = 114 -> << SHIFT(139) >>
    [] id = 116 -> << REDUCE(sym_program, 1) >>
    [] id = 118 -> << REDUCE(aux_sym_npc_block_repeat1, 2) >>
    [] id = 120 -> << REDUCE(aux_sym_npc_block_repeat1, 2), SHIFT_REPEAT(118) >>
    [] id = 123 -> << REDUCE(aux_sym_npc_block_repeat1, 2), SHIFT_REPEAT(117) >>
    [] id = 126 -> << REDUCE(aux_sym_npc_block_repeat1, 2), SHIFT_REPEAT(117) >>
    [] id = 129 -> << REDUCE(aux_sym_npc_block_repeat1, 2), SHIFT_REPEAT(138) >>
    [] id = 132 -> << REDUCE(aux_sym_npc_block_repeat1, 2), SHIFT_REPEAT(178) >>
    [] id = 135 -> << REDUCE(aux_sym_npc_block_repeat1, 2), SHIFT_REPEAT(139) >>
    [] id = 138 -> << REDUCE(aux_sym_npc_block_repeat1, 2), SHIFT_REPEAT(132) >>
    [] id = 141 -> << SHIFT(75) >>
    [] id = 143 -> << REDUCE(aux_sym_program_repeat1, 2) >>
    [] id = 145 -> << REDUCE(aux_sym_program_repeat1, 2), SHIFT_REPEAT(212) >>
    [] id = 148 -> << REDUCE(aux_sym_program_repeat1, 2), SHIFT_REPEAT(113) >>
    [] id = 151 -> << REDUCE(aux_sym_program_repeat1, 2), SHIFT_REPEAT(222) >>
    [] id = 154 -> << REDUCE(aux_sym_program_repeat1, 2), SHIFT_REPEAT(221) >>
    [] id = 157 -> << REDUCE(aux_sym_program_repeat1, 2), SHIFT_REPEAT(220) >>
    [] id = 160 -> << REDUCE(aux_sym_program_repeat1, 2), SHIFT_REPEAT(219) >>
    [] id = 163 -> << REDUCE(aux_sym_program_repeat1, 2), SHIFT_REPEAT(218) >>
    [] id = 166 -> << REDUCE(sym_boolean, 1) >>
    [] id = 168 -> << REDUCE(sym_boolean, 1) >>
    [] id = 170 -> << SHIFT(95) >>
    [] id = 172 -> << SHIFT(123) >>
    [] id = 174 -> << SHIFT(126) >>
    [] id = 176 -> << SHIFT(126) >>
    [] id = 178 -> << SHIFT(159) >>
    [] id = 180 -> << SHIFT(184) >>
    [] id = 182 -> << SHIFT(107) >>
    [] id = 184 -> << SHIFT(73) >>
    [] id = 186 -> << SHIFT(24) >>
    [] id = 188 -> << SHIFT(35) >>
    [] id = 190 -> << SHIFT(35) >>
    [] id = 192 -> << SHIFT(96) >>
    [] id = 194 -> << REDUCE(sym_do_stmt, 2) >>
    [] id = 196 -> << REDUCE(sym_do_stmt, 2) >>
    [] id = 198 -> << REDUCE(aux_sym_room_block_repeat1, 2) >>
    [] id = 200 -> ts_parse_actions_200
    [] id = 203 -> << REDUCE(aux_sym_room_block_repeat1, 2), SHIFT_REPEAT(126) >>
    [] id = 206 -> << REDUCE(aux_sym_room_block_repeat1, 2), SHIFT_REPEAT(126) >>
    [] id = 209 -> << REDUCE(aux_sym_room_block_repeat1, 2), SHIFT_REPEAT(159) >>
    [] id = 212 -> << REDUCE(aux_sym_room_block_repeat1, 2), SHIFT_REPEAT(184) >>
    [] id = 215 -> << REDUCE(aux_sym_room_block_repeat1, 2), SHIFT_REPEAT(107) >>
    [] id = 218 -> << REDUCE(sym_location, 3) >>
    [] id = 220 -> << REDUCE(sym_location, 3) >>
    [] id = 222 -> << SHIFT(23) >>
    [] id = 224 -> << SHIFT(36) >>
    [] id = 226 -> << SHIFT(36) >>
    [] id = 228 -> << SHIFT(23) >>
    [] id = 230 -> << REDUCE(aux_sym_cond_line_ext_repeat1, 2), SHIFT_REPEAT(22) >>
    [] id = 233 -> << REDUCE(aux_sym_cond_line_ext_repeat1, 2), SHIFT_REPEAT(36) >>
    [] id = 236 -> << REDUCE(aux_sym_cond_line_ext_repeat1, 2), SHIFT_REPEAT(36) >>
    [] id = 239 -> << REDUCE(aux_sym_cond_line_ext_repeat1, 2), SHIFT_REPEAT(22) >>
    [] id = 242 -> << REDUCE(aux_sym_cond_line_ext_repeat1, 2) >>
    [] id = 244 -> << SHIFT(22) >>
    [] id = 246 -> << SHIFT(22) >>
    [] id = 248 -> << REDUCE(sym_cond_line_ext, 1) >>
    [] id = 250 -> << REDUCE(aux_sym_do_stmt_repeat1, 2), SHIFT_REPEAT(24) >>
    [] id = 253 -> << REDUCE(aux_sym_do_stmt_repeat1, 2), SHIFT_REPEAT(35) >>
    [] id = 256 -> << REDUCE(aux_sym_do_stmt_repeat1, 2), SHIFT_REPEAT(35) >>
    [] id = 259 -> << REDUCE(aux_sym_do_stmt_repeat1, 2) >>
    [] id = 261 -> << REDUCE(aux_sym_do_stmt_repeat1, 2) >>
    [] id = 263 -> << SHIFT(34) >>
    [] id = 265 -> << SHIFT(46) >>
    [] id = 267 -> << SHIFT(46) >>
    [] id = 269 -> << REDUCE(sym_cond_line, 1) >>
    [] id = 271 -> << REDUCE(sym_cond_line, 1) >>
    [] id = 273 -> << REDUCE(sym_goal_done, 3) >>
    [] id = 275 -> << REDUCE(sym_goal_cond, 3) >>
    [] id = 277 -> << REDUCE(sym_goal_start, 3) >>
    [] id = 279 -> << REDUCE(sym_goal_desc, 2) >>
    [] id = 281 -> << REDUCE(sym_goal_group, 2) >>
    [] id = 283 -> << REDUCE(sym_goal_cond, 4) >>
    [] id = 285 -> << REDUCE(sym_goal_stmt, 1) >>
    [] id = 287 -> << REDUCE(aux_sym_do_stmt_repeat1, 2), SHIFT_REPEAT(34) >>
    [] id = 290 -> << REDUCE(aux_sym_do_stmt_repeat1, 2), SHIFT_REPEAT(46) >>
    [] id = 293 -> << REDUCE(aux_sym_do_stmt_repeat1, 2), SHIFT_REPEAT(46) >>
    [] id = 296 -> << REDUCE(sym_item_portable, 2) >>
    [] id = 298 -> << REDUCE(sym_item_portable, 2) >>
    [] id = 300 -> << REDUCE(sym_item_container_state, 3) >>
    [] id = 302 -> << REDUCE(sym_item_container_state, 3) >>
    [] id = 304 -> << REDUCE(sym_movement_stmt, 7) >>
    [] id = 306 -> << REDUCE(sym_movement_stmt, 7) >>
    [] id = 308 -> << SHIFT(204) >>
    [] id = 310 -> << SHIFT(160) >>
    [] id = 312 -> << REDUCE(sym_item_ability, 2) >>
    [] id = 314 -> << REDUCE(sym_item_ability, 2) >>
    [] id = 316 -> << REDUCE(sym_item_restricted, 2) >>
    [] id = 318 -> << REDUCE(sym_item_restricted, 2) >>
    [] id = 320 -> << REDUCE(sym_item_text, 2) >>
    [] id = 322 -> << REDUCE(sym_item_text, 2) >>
    [] id = 324 -> << REDUCE(sym_item_desc, 2) >>
    [] id = 326 -> << REDUCE(sym_item_desc, 2) >>
    [] id = 328 -> << SHIFT(26) >>
    [] id = 330 -> << REDUCE(sym_item_name, 2) >>
    [] id = 332 -> << REDUCE(sym_item_name, 2) >>
    [] id = 334 -> << REDUCE(sym_movement_stmt, 6) >>
    [] id = 336 -> << REDUCE(sym_movement_stmt, 6) >>
    [] id = 338 -> << SHIFT(197) >>
    [] id = 340 -> << SHIFT(164) >>
    [] id = 342 -> << REDUCE(sym_item_location, 1) >>
    [] id = 344 -> << REDUCE(sym_item_location, 1) >>
    [] id = 346 -> << REDUCE(sym_item_stmt, 1) >>
    [] id = 348 -> << REDUCE(sym_item_stmt, 1) >>
    [] id = 350 -> << SHIFT(104) >>
    [] id = 352 -> << SHIFT(187) >>
    [] id = 354 -> << SHIFT(183) >>
    [] id = 356 -> << SHIFT(120) >>
    [] id = 358 -> << SHIFT(130) >>
    [] id = 360 -> << SHIFT(106) >>
    [] id = 362 -> << REDUCE(sym_movement_stmt, 9) >>
    [] id = 364 -> << REDUCE(sym_movement_stmt, 9) >>
    [] id = 366 -> << SHIFT(148) >>
    [] id = 368 -> << REDUCE(sym_movement_stmt, 8) >>
    [] id = 370 -> << REDUCE(sym_movement_stmt, 8) >>
    [] id = 372 -> << SHIFT(154) >>
    [] id = 374 -> << REDUCE(aux_sym_exit_block_repeat1, 2) >>
    [] id = 376 -> << REDUCE(aux_sym_exit_block_repeat1, 2), SHIFT_REPEAT(187) >>
    [] id = 379 -> << REDUCE(aux_sym_exit_block_repeat1, 2), SHIFT_REPEAT(183) >>
    [] id = 382 -> << REDUCE(aux_sym_exit_block_repeat1, 2), SHIFT_REPEAT(120) >>
    [] id = 385 -> << SHIFT(101) >>
    [] id = 387 -> << REDUCE(aux_sym_overlay_block_repeat1, 2), SHIFT_REPEAT(130) >>
    [] id = 390 -> << REDUCE(aux_sym_overlay_block_repeat1, 2) >>
    [] id = 392 -> << SHIFT(108) >>
    [] id = 394 -> << SHIFT(18) >>
    [] id = 396 -> << SHIFT(50) >>
    [] id = 398 -> << REDUCE(sym_exit_stmt, 4) >>
    [] id = 400 -> << REDUCE(sym_exit_stmt, 4) >>
    [] id = 402 -> << REDUCE(sym_trigger_block, 2) >>
    [] id = 404 -> << REDUCE(sym_spinner_def, 3) >>
    [] id = 406 -> << SHIFT(2) >>
    [] id = 408 -> << SHIFT(2) >>
    [] id = 410 -> << SHIFT(82) >>
    [] id = 412 -> << REDUCE(sym_npc_desc, 2) >>
    [] id = 414 -> << REDUCE(sym_npc_desc, 2) >>
    [] id = 416 -> << REDUCE(aux_sym_dialogue_stmt_repeat1, 2), SHIFT_REPEAT(2) >>
    [] id = 419 -> << REDUCE(aux_sym_dialogue_stmt_repeat1, 2), SHIFT_REPEAT(2) >>
    [] id = 422 -> << REDUCE(aux_sym_dialogue_stmt_repeat1, 2) >>
    [] id = 424 -> << SHIFT(90) >>
    [] id = 426 -> << REDUCE(sym_spinner_block, 2) >>
    [] id = 428 -> << REDUCE(sym_dialogue_stmt, 4) >>
    [] id = 430 -> << REDUCE(sym_dialogue_stmt, 4) >>
    [] id = 432 -> << REDUCE(sym_npc_block, 2) >>
    [] id = 434 -> << REDUCE(sym_npc_name, 2) >>
    [] id = 436 -> << REDUCE(sym_npc_name, 2) >>
    [] id = 438 -> << REDUCE(sym_spinner_block, 3) >>
    [] id = 440 -> << REDUCE(sym_set_list, 3) >>
    [] id = 442 -> << REDUCE(sym_room_block, 2) >>
    [] id = 444 -> << REDUCE(sym_npc_stmt, 1) >>
    [] id = 446 -> << REDUCE(sym_npc_stmt, 1) >>
    [] id = 448 -> << REDUCE(sym_npc_block, 3) >>
    [] id = 450 -> << REDUCE(sym_trigger, 4) >>
    [] id = 452 -> << SHIFT(68) >>
    [] id = 454 -> << REDUCE(sym_npc_state, 3) >>
    [] id = 456 -> << REDUCE(sym_npc_state, 3) >>
    [] id = 458 -> << REDUCE(sym_movement_stmt, 11) >>
    [] id = 460 -> << REDUCE(sym_movement_stmt, 11) >>
    [] id = 462 -> << REDUCE(sym_item_block, 3) >>
    [] id = 464 -> << REDUCE(sym_movement_stmt, 10) >>
    [] id = 466 -> << REDUCE(sym_movement_stmt, 10) >>
    [] id = 468 -> << REDUCE(sym_dialogue_stmt, 5) >>
    [] id = 470 -> << REDUCE(sym_dialogue_stmt, 5) >>
    [] id = 472 -> << REDUCE(sym_set_decl, 5) >>
    [] id = 474 -> << REDUCE(sym_npc_def, 3) >>
    [] id = 476 -> << REDUCE(sym_set_list, 4) >>
    [] id = 478 -> << REDUCE(sym_trigger_block, 3) >>
    [] id = 480 -> << REDUCE(sym_item_block, 2) >>
    [] id = 482 -> << REDUCE(sym_dialogue_stmt, 6) >>
    [] id = 484 -> << REDUCE(sym_dialogue_stmt, 6) >>
    [] id = 486 -> << REDUCE(sym_trigger, 3) >>
    [] id = 488 -> << REDUCE(sym_npc_state, 2) >>
    [] id = 490 -> << REDUCE(sym_npc_state, 2) >>
    [] id = 492 -> << REDUCE(sym_room_def, 3) >>
    [] id = 494 -> << REDUCE(sym_item_def, 3) >>
    [] id = 496 -> << REDUCE(sym_room_block, 3) >>
    [] id = 498 -> << SHIFT(151) >>
    [] id = 500 -> << SHIFT(21) >>
    [] id = 502 -> << SHIFT(58) >>
    [] id = 504 -> << REDUCE(sym_room_visited, 2) >>
    [] id = 506 -> << REDUCE(sym_room_visited, 2) >>
    [] id = 508 -> << REDUCE(sym_room_desc, 2) >>
    [] id = 510 -> << REDUCE(sym_room_desc, 2) >>
    [] id = 512 -> << SHIFT(60) >>
    [] id = 514 -> << REDUCE(sym_room_name, 2) >>
    [] id = 516 -> << REDUCE(sym_room_name, 2) >>
    [] id = 518 -> << REDUCE(sym_exit_block, 3) >>
    [] id = 520 -> << REDUCE(sym_exit_block, 3) >>
    [] id = 522 -> << REDUCE(sym_exit_stmt, 5) >>
    [] id = 524 -> << REDUCE(sym_exit_stmt, 5) >>
    [] id = 526 -> << REDUCE(aux_sym_trigger_block_repeat1, 2) >>
    [] id = 528 -> << REDUCE(aux_sym_trigger_block_repeat1, 2), SHIFT_REPEAT(21) >>
    [] id = 531 -> << REDUCE(aux_sym_trigger_block_repeat1, 2), SHIFT_REPEAT(58) >>
    [] id = 534 -> << REDUCE(sym_exit_block, 2) >>
    [] id = 536 -> << REDUCE(sym_exit_block, 2) >>
    [] id = 538 -> << REDUCE(sym_room_stmt, 1) >>
    [] id = 540 -> << REDUCE(sym_room_stmt, 1) >>
    [] id = 542 -> << REDUCE(sym_overlay_block, 2) >>
    [] id = 544 -> << REDUCE(sym_overlay_block, 2) >>
    [] id = 546 -> << SHIFT(209) >>
    [] id = 548 -> << REDUCE(sym_overlay_block, 3) >>
    [] id = 550 -> << REDUCE(sym_overlay_block, 3) >>
    [] id = 552 -> << SHIFT(88) >>
    [] id = 554 -> << REDUCE(sym_overlay_entry, 2) >>
    [] id = 556 -> << SHIFT(166) >>
    [] id = 558 -> << REDUCE(sym_overlay_stmt, 4) >>
    [] id = 560 -> << REDUCE(sym_overlay_stmt, 4) >>
    [] id = 562 -> << SHIFT(119) >>
    [] id = 564 -> << SHIFT(11) >>
    [] id = 566 -> << SHIFT(11) >>
    [] id = 568 -> << SHIFT(190) >>
    [] id = 570 -> << SHIFT(44) >>
    [] id = 572 -> << SHIFT(99) >>
    [] id = 574 -> << SHIFT(200) >>
    [] id = 576 -> << SHIFT(177) >>
    [] id = 578 -> << SHIFT(179) >>
    [] id = 580 -> << SHIFT(199) >>
    [] id = 582 -> << SHIFT(198) >>
    [] id = 584 -> << REDUCE(sym_exit_required_items, 4) >>
    [] id = 586 -> << SHIFT(210) >>
    [] id = 588 -> << SHIFT(211) >>
    [] id = 590 -> << SHIFT(122) >>
    [] id = 592 -> << REDUCE(sym_exit_required_flags, 4) >>
    [] id = 594 -> << REDUCE(aux_sym_trigger_repeat1, 2), SHIFT_REPEAT(190) >>
    [] id = 597 -> << REDUCE(aux_sym_trigger_repeat1, 2), SHIFT_REPEAT(44) >>
    [] id = 600 -> << REDUCE(aux_sym_trigger_repeat1, 2) >>
    [] id = 602 -> << REDUCE(sym_exit_barred, 2) >>
    [] id = 604 -> << REDUCE(sym_exit_required_flags, 5) >>
    [] id = 606 -> << REDUCE(sym_exit_required_items, 5) >>
    [] id = 608 -> << SHIFT(92) >>
    [] id = 610 -> << SHIFT(188) >>
    [] id = 612 -> << SHIFT(214) >>
    [] id = 614 -> << SHIFT(213) >>
    [] id = 616 -> << SHIFT(144) >>
    [] id = 618 -> << REDUCE(sym_exit_attr, 1) >>
    [] id = 620 -> << SHIFT(67) >>
    [] id = 622 -> << SHIFT(115) >>
    [] id = 624 -> << REDUCE(aux_sym_spinner_block_repeat1, 2) >>
    [] id = 626 -> << REDUCE(aux_sym_spinner_block_repeat1, 2), SHIFT_REPEAT(115) >>
    [] id = 629 -> << SHIFT(71) >>
    [] id = 631 -> << REDUCE(sym_exit_attr, 2) >>
    [] id = 633 -> << REDUCE(sym_do_stmt, 3) >>
    [] id = 635 -> << SHIFT(15) >>
    [] id = 637 -> << SHIFT(31) >>
    [] id = 639 -> << REDUCE(sym_wedge_stmt, 2) >>
    [] id = 641 -> << SHIFT(206) >>
    [] id = 643 -> << SHIFT(196) >>
    [] id = 645 -> << SHIFT(87) >>
    [] id = 647 -> << REDUCE(sym_braced_block, 2) >>
    [] id = 649 -> << REDUCE(sym_trigger_mod, 2) >>
    [] id = 651 -> << REDUCE(sym_trigger_stmt, 1) >>
    [] id = 653 -> << SHIFT(133) >>
    [] id = 655 -> << SHIFT(137) >>
    [] id = 657 -> << SHIFT(131) >>
    [] id = 659 -> << SHIFT(72) >>
    [] id = 661 -> << SHIFT(47) >>
    [] id = 663 -> << SHIFT(39) >>
    [] id = 665 -> << REDUCE(sym_if_block, 3) >>
    [] id = 667 -> << REDUCE(aux_sym_set_list_repeat1, 2), SHIFT_REPEAT(196) >>
    [] id = 670 -> << REDUCE(aux_sym_set_list_repeat1, 2) >>
    [] id = 672 -> << REDUCE(sym_braced_block, 3) >>
    [] id = 674 -> << SHIFT(136) >>
    [] id = 676 -> << SHIFT(51) >>
    [] id = 678 -> << SHIFT(38) >>
    [] id = 680 -> << SHIFT(3) >>
    [] id = 682 -> << SHIFT(141) >>
    [] id = 684 -> << REDUCE(sym_wedge_stmt, 4) >>
    [] id = 686 -> << SHIFT(9) >>
    [] id = 688 -> << SHIFT(193) >>
    [] id = 690 -> << SHIFT(216) >>
    [] id = 692 -> << SHIFT(189) >>
    [] id = 694 -> << SHIFT(17) >>
    [] id = 696 -> << SHIFT(207) >>
    [] id = 698 -> << SHIFT(172) >>
    [] id = 700 -> << SHIFT(192) >>
    [] id = 702 -> << SHIFT(25) >>
    [] id = 704 -> << SHIFT(32) >>
    [] id = 706 -> << SHIFT(40) >>
    [] id = 708 -> << SHIFT(191) >>
    [] id = 710 -> << SHIFT(78) >>
    [] id = 712 -> << SHIFT(185) >>
    [] id = 714 -> << SHIFT(152) >>
    [] id = 716 -> << SHIFT(155) >>
    [] id = 718 -> << SHIFT(157) >>
    [] id = 720 -> << SHIFT(28) >>
    [] id = 722 -> << SHIFT(161) >>
    [] id = 724 -> << SHIFT(181) >>
    [] id = 726 -> << SHIFT(170) >>
    [] id = 728 -> << SHIFT(53) >>
    [] id = 730 -> << SHIFT(62) >>
    [] id = 732 -> << SHIFT(124) >>
    [] id = 734 -> << SHIFT(194) >>
    [] id = 736 -> << SHIFT(52) >>
    [] id = 738 -> << SHIFT(125) >>
    [] id = 740 -> << SHIFT(175) >>
    [] id = 742 -> << SHIFT(158) >>
    [] id = 744 -> << SHIFT(59) >>
    [] id = 746 -> << SHIFT(208) >>
    [] id = 748 -> << SHIFT(20) >>
    [] id = 750 -> << SHIFT(20) >>
    [] id = 752 -> << SHIFT(215) >>
    [] id = 754 -> << SHIFT(201) >>
    [] id = 756 -> << SHIFT(77) >>
    [] id = 758 -> << SHIFT(195) >>
    [] id = 760 -> << SHIFT(203) >>
    [] id = 762 -> << ACCEPT_INPUT >>
    [] id = 764 -> << SHIFT(121) >>
    [] id = 766 -> << SHIFT(176) >>
    [] id = 768 -> << SHIFT(174) >>
    [] id = 770 -> << SHIFT(173) >>
    [] id = 772 -> << SHIFT(180) >>
    [] OTHER -> << >>

\* ---- ts_parse_table / ts_small_parse_table: one definition per parse state ----
\* the row of parse state 1 with an entry for `name` as well
ts_parse_table_1_name(symbol) ==
  CASE symbol = sym_program -> STATE_(217)
    [] symbol \in {sym_set_decl, sym_trigger, sym_room_def, sym_item_def, sym_spinner_def, sym_npc_def, 
          sym_goal_def, aux_sym_program_repeat1} -> STATE_(10)
    [] symbol = ts_builtin_sym_end -> ACTIONS_(5)
    [] symbol = sym_comment -> ACTIONS_(3)
    [] symbol = anon_sym_let -> ACTIONS_(7)
    [] symbol = anon_sym_trigger -> ACTIONS_(9)
    [] symbol = anon_sym_room -> ACTIONS_(11)
    [] symbol = anon_sym_item -> ACTIONS_(13)
    [] symbol = anon_sym_spinner -> ACTIONS_(15)
    [] symbol = anon_sym_npc -> ACTIONS_(17)
    [] symbol = anon_sym_goal -> ACTIONS_(19)
    [] symbol = anon_sym_name -> ACTIONS_(11)
    [] OTHER -> 0
\* the row of parse state 1
ts_parse_table_1(symbol) ==
  CASE symbol = sym_program -> STATE_(217)
    [] symbol \in {sym_set_decl, sym_trigger, sym_room_def, sym_item_def, sym_spinner_def, sym_npc_def, 
          sym_goal_def, aux_sym_program_repeat1} -> STATE_(10)
    [] symbol = ts_builtin_sym_end -> ACTIONS_(5)
    [] symbol = sym_comment -> ACTIONS_(3)
    [] symbol = anon_sym_let -> ACTIONS_(7)
    [] symbol = anon_sym_trigger -> ACTIONS_(9)
    [] symbol = anon_sym_room -> ACTIONS_(11)
    [] symbol = anon_sym_item -> ACTIONS_(13)
    [] symbol = anon_sym_spinner -> ACTIONS_(15)
    [] symbol = anon_sym_npc -> ACTIONS_(17)
    [] symbol = anon_sym_goal -> ACTIONS_(19)
    [] OTHER -> 0
\* the row of parse state 10
ts_small_parse_table_10(symbol) ==
  CASE symbol = sym_comment -> ACTIONS_(3)
    [] symbol = anon_sym_let -> ACTIONS_(7)
    [] symbol = anon_sym_trigger -> ACTIONS_(9)
    [] symbol = anon_sym_room -> ACTIONS_(11)
    [] symbol = anon_sym_item -> ACTIONS_(13)
    [] symbol = anon_sym_spinner -> ACTIONS_(15)
    [] symbol = anon_sym_npc -> ACTIONS_(17)
    [] symbol = anon_sym_goal -> ACTIONS_(19)
    [] symbol = ts_builtin_sym_end -> ACTIONS_(116)
    [] symbol \in {sym_set_decl, sym_trigger, sym_room_def, sym_item_def, sym_spinner_def, sym_npc_def, 
          sym_goal_def, aux_sym_program_repeat1} -> STATE_(14)
    [] OTHER -> 0
\* the row of parse state 212 with the shift on an identifier instead of `set`
ts_small_parse_table_212_identifier(symbol) ==
  CASE symbol = sym_comment -> ACTIONS_(3)
    [] symbol = sym_identifier -> ACTIONS_(752)
    [] OTHER -> 0
\* the row of parse state 212
ts_small_parse_table_212(symbol) ==
  CASE symbol = sym_comment -> ACTIONS_(3)
    [] symbol = anon_sym_set -> ACTIONS_(752)
    [] OTHER -> 0
\* the row of parse state 219
ts_small_parse_table_219(symbol) ==
  CASE symbol = sym_comment -> ACTIONS_(3)
    [] symbol = sym_identifier -> ACTIONS_(766)
    [] OTHER -> 0
\* the row of parse state 121, had `{` been accepted after the name of a goal
ts_small_parse_table_121_brace(symbol) ==
  CASE symbol = sym_comment -> ACTIONS_(3)
    [] symbol = sym_string -> STATE_(7)
    [] symbol \in {aux_sym_string_token1, aux_sym_string_token2} -> ACTIONS_(406)
    [] symbol \in {aux_sym_string_token3, aux_sym_string_token4, aux_sym_string_token5} -> ACTIONS_(408)
    [] symbol = anon_sym_LBRACE -> ACTIONS_(694)
    [] OTHER -> 0
\* the row of parse state 121
ts_small_parse_table_121(symbol) ==
  CASE symbol = sym_comment -> ACTIONS_(3)
    [] symbol = sym_string -> STATE_(7)
    [] symbol \in {aux_sym_string_token1, aux_sym_string_token2} -> ACTIONS_(406)
    [] symbol \in {aux_sym_string_token3, aux_sym_string_token4, aux_sym_string_token5} -> ACTIONS_(408)
    [] OTHER -> 0
\* the row of parse state 190, had `once` been optional after `only`
ts_small_parse_table_190_when(symbol) ==
  CASE symbol = sym_comment -> ACTIONS_(3)
    [] symbol = anon_sym_once -> ACTIONS_(714)
    [] symbol = anon_sym_when -> ACTIONS_(570)
    [] OTHER -> 0
\* the row of parse state 190
ts_small_parse_table_190(symbol) ==
  CASE symbol = sym_comment -> ACTIONS_(3)
    [] symbol = anon_sym_once -> ACTIONS_(714)
    [] OTHER -> 0
\* the row of parse state 99, had an identifier started a statement of a trigger block
ts_small_parse_table_99_action(symbol) ==
  CASE symbol = sym_comment -> ACTIONS_(3)
    [] symbol = anon_sym_if -> ACTIONS_(500)
    [] symbol = anon_sym_do -> ACTIONS_(502)
    [] symbol = anon_sym_RBRACE -> ACTIONS_(512)
    [] symbol \in {sym_trigger_stmt, aux_sym_trigger_block_repeat1} -> STATE_(109)
    [] symbol \in {sym_if_block, sym_do_stmt} -> STATE_(153)
    [] symbol = sym_identifier -> ACTIONS_(562)
    [] OTHER -> 0
\* the row of parse state 99
ts_small_parse_table_99(symbol) ==
  CASE symbol = sym_comment -> ACTIONS_(3)
    [] symbol = anon_sym_if -> ACTIONS_(500)
    [] symbol = anon_sym_do -> ACTIONS_(502)
    [] symbol = anon_sym_RBRACE -> ACTIONS_(512)
    [] symbol \in {sym_trigger_stmt, aux_sym_trigger_block_repeat1} -> STATE_(109)
    [] symbol \in {sym_if_block, sym_do_stmt} -> STATE_(153)
    [] OTHER -> 0
\* the row of parse state 26, had `only` not ended the condition
ts_small_parse_table_26_no_only(symbol) ==
  CASE symbol = sym_comment -> ACTIONS_(3)
    [] symbol = anon_sym_LBRACE -> ACTIONS_(271)
    [] symbol \in {sym_identifier, sym_number} -> ACTIONS_(263)
    [] symbol \in {aux_sym_string_token1, aux_sym_string_token2} -> ACTIONS_(265)
    [] symbol = anon_sym_when -> ACTIONS_(269)
    [] symbol \in {sym_string, aux_sym_do_stmt_repeat1} -> STATE_(34)
    [] symbol \in {aux_sym_string_token3, aux_sym_string_token4, aux_sym_string_token5} -> ACTIONS_(267)
    [] OTHER -> 0
\* the row of parse state 26
ts_small_parse_table_26(symbol) ==
  CASE symbol = sym_comment -> ACTIONS_(3)
    [] symbol = anon_sym_LBRACE -> ACTIONS_(271)
    [] symbol \in {sym_identifier, sym_number} -> ACTIONS_(263)
    [] symbol \in {aux_sym_string_token1, aux_sym_string_token2} -> ACTIONS_(265)
    [] symbol \in {anon_sym_only, anon_sym_when} -> ACTIONS_(269)
    [] symbol \in {sym_string, aux_sym_do_stmt_repeat1} -> STATE_(34)
    [] symbol \in {aux_sym_string_token3, aux_sym_string_token4, aux_sym_string_token5} -> ACTIONS_(267)
    [] OTHER -> 0
\* the row of parse state 141, had `width` started a statement of a spinner
ts_small_parse_table_141_width(symbol) ==
  CASE symbol = sym_comment -> ACTIONS_(3)
    [] symbol = anon_sym_RBRACE -> ACTIONS_(620)
    [] symbol = anon_sym_wedge -> ACTIONS_(622)
    [] symbol \in {sym_wedge_stmt, aux_sym_spinner_block_repeat1} -> STATE_(143)
    [] symbol = anon_sym_width -> ACTIONS_(641)
    [] OTHER -> 0
\* the row of parse state 141
ts_small_parse_table_141(symbol) ==
  CASE symbol = sym_comment -> ACTIONS_(3)
    [] symbol = anon_sym_RBRACE -> ACTIONS_(620)
    [] symbol = anon_sym_wedge -> ACTIONS_(622)
    [] symbol \in {sym_wedge_stmt, aux_sym_spinner_block_repeat1} -> STATE_(143)
    [] OTHER -> 0
\* the row of parse state 6, had `description` started a description of a goal
ts_small_parse_table_6_description(symbol) ==
  CASE symbol = sym_comment -> ACTIONS_(3)
    [] symbol = anon_sym_desc -> ACTIONS_(78)
    [] symbol = anon_sym_group -> ACTIONS_(80)
    [] symbol = anon_sym_done -> ACTIONS_(82)
    [] symbol = anon_sym_start -> ACTIONS_(84)
    [] symbol \in {sym_goal_stmt, aux_sym_goal_def_repeat1} -> STATE_(8)
    [] symbol \in {sym_goal_desc, sym_goal_group, sym_goal_done, sym_goal_start} -> STATE_(33)
    [] symbol \in {ts_builtin_sym_end, anon_sym_let, anon_sym_trigger, anon_sym_room, anon_sym_item,
    anon_sym_spinner, anon_sym_npc, anon_sym_goal} -> ACTIONS_(76)
    [] symbol = anon_sym_description -> ACTIONS_(78)
    [] OTHER -> 0
\* the row of parse state 6
ts_small_parse_table_6(symbol) ==
  CASE symbol = sym_comment -> ACTIONS_(3)
    [] symbol = anon_sym_desc -> ACTIONS_(78)
    [] symbol = anon_sym_group -> ACTIONS_(80)
    [] symbol = anon_sym_done -> ACTIONS_(82)
    [] symbol = anon_sym_start -> ACTIONS_(84)
    [] symbol \in {sym_goal_stmt, aux_sym_goal_def_repeat1} -> STATE_(8)
    [] symbol \in {sym_goal_desc, sym_goal_group, sym_goal_done, sym_goal_start} -> STATE_(33)
    [] symbol \in {ts_builtin_sym_end, anon_sym_let, anon_sym_trigger, anon_sym_room, anon_sym_item,
    anon_sym_spinner, anon_sym_npc, anon_sym_goal} -> ACTIONS_(76)
    [] OTHER -> 0
\* the row of parse state 107, had `->` directly followed `exit`
ts_small_parse_table_107_arrow(symbol) ==
  CASE symbol = sym_comment -> ACTIONS_(3)
    [] symbol = sym_identifier -> ACTIONS_(546)
    [] symbol = sym_string -> STATE_(209)
    [] symbol \in {aux_sym_string_token1, aux_sym_string_token2} -> ACTIONS_(406)
    [] symbol \in {aux_sym_string_token3, aux_sym_string_token4, aux_sym_string_token5} -> ACTIONS_(408)
    [] symbol = anon_sym_DASH_GT -> ACTIONS_(746)
    [] OTHER -> 0
\* the row of parse state 107
ts_small_parse_table_107(symbol) ==
  CASE symbol = sym_comment -> ACTIONS_(3)
    [] symbol = sym_identifier -> ACTIONS_(546)
    [] symbol = sym_string -> STATE_(209)
    [] symbol \in {aux_sym_string_token1, aux_sym_string_token2} -> ACTIONS_(406)
    [] symbol \in {aux_sym_string_token3, aux_sym_string_token4, aux_sym_string_token5} -> ACTIONS_(408)
    [] OTHER -> 0
\* the row of parse state 199, had `missing` been followed by `item` as well
ts_small_parse_table_199_item(symbol) ==
  CASE symbol = sym_comment -> ACTIONS_(3)
    [] symbol = anon_sym_flag -> ACTIONS_(688)
    [] symbol = anon_sym_item -> ACTIONS_(688)
    [] OTHER -> 0
\* the row of parse state 199
ts_small_parse_table_199(symbol) ==
  CASE symbol = sym_comment -> ACTIONS_(3)
    [] symbol = anon_sym_flag -> ACTIONS_(688)
    [] OTHER -> 0
\* the row of parse state 207, had `)` been accepted right after `(`
ts_small_parse_table_207_rparen(symbol) ==
  CASE symbol = sym_comment -> ACTIONS_(3)
    [] symbol = sym_identifier -> ACTIONS_(742)
    [] symbol = anon_sym_RPAREN -> ACTIONS_(659)
    [] OTHER -> 0
\* the row of parse state 207
ts_small_parse_table_207(symbol) ==
  CASE symbol = sym_comment -> ACTIONS_(3)
    [] symbol = sym_identifier -> ACTIONS_(742)
    [] OTHER -> 0
\* the row of parse state 196, had `)` been accepted right after `,`
ts_small_parse_table_196_rparen(symbol) ==
  CASE symbol = sym_comment -> ACTIONS_(3)
    [] symbol = sym_identifier -> ACTIONS_(726)
    [] symbol = anon_sym_RPAREN -> ACTIONS_(670)
    [] OTHER -> 0
\* the row of parse state 196
ts_small_parse_table_196(symbol) ==
  CASE symbol = sym_comment -> ACTIONS_(3)
    [] symbol = sym_identifier -> ACTIONS_(726)
    [] OTHER -> 0
\* the row of parse state 123, had a bare word been accepted after `name`
ts_small_parse_table_123_identifier(symbol) ==
  CASE symbol = sym_comment -> ACTIONS_(3)
    [] symbol = sym_string -> STATE_(100)
    [] symbol \in {aux_sym_string_token1, aux_sym_string_token2} -> ACTIONS_(564)
    [] symbol \in {aux_sym_string_token3, aux_sym_string_token4, aux_sym_string_token5} -> ACTIONS_(566)
    [] symbol = sym_identifier -> ACTIONS_(564)
    [] OTHER -> 0
\* the row of parse state 123
ts_small_parse_table_123(symbol) ==
  CASE symbol = sym_comment -> ACTIONS_(3)
    [] symbol = sym_string -> STATE_(100)
    [] symbol \in {aux_sym_string_token1, aux_sym_string_token2} -> ACTIONS_(564)
    [] symbol \in {aux_sym_string_token3, aux_sym_string_token4, aux_sym_string_token5} -> ACTIONS_(566)
    [] OTHER -> 0
\* the row of parse state 180, had `}` opened a room block as `{` does
ts_small_parse_table_180_rbrace(symbol) ==
  CASE symbol = sym_comment -> ACTIONS_(3)
    [] symbol = anon_sym_LBRACE -> ACTIONS_(694)
    [] symbol = sym_room_block -> STATE_(93)
    [] symbol = anon_sym_RBRACE -> ACTIONS_(694)
    [] OTHER -> 0
\* the row of parse state 180
ts_small_parse_table_180(symbol) ==
  CASE symbol = sym_comment -> ACTIONS_(3)
    [] symbol = anon_sym_LBRACE -> ACTIONS_(694)
    [] symbol = sym_room_block -> STATE_(93)
    [] OTHER -> 0
\* the row of parse state 9, had a comment been shifted there as `}` is
ts_small_parse_table_9_comment_shifted(symbol) ==
  CASE symbol = sym_comment -> ACTIONS_(102)
    [] symbol = anon_sym_location -> ACTIONS_(43)
    [] symbol = anon_sym_RBRACE -> ACTIONS_(102)
    [] symbol = anon_sym_name -> ACTIONS_(104)
    [] symbol = anon_sym_desc -> ACTIONS_(106)
    [] symbol = anon_sym_description -> ACTIONS_(108)
    [] symbol = anon_sym_state -> ACTIONS_(110)
    [] symbol = anon_sym_movement -> ACTIONS_(112)
    [] symbol = anon_sym_dialogue -> ACTIONS_(114)
    [] symbol \in {sym_npc_stmt, aux_sym_npc_block_repeat1} -> STATE_(13)
    [] symbol \in {sym_npc_name, sym_npc_desc, sym_npc_state, sym_movement_stmt, sym_dialogue_stmt,
    sym_location} -> STATE_(74)
    [] OTHER -> 0
\* the row of parse state 9
ts_small_parse_table_9(symbol) ==
  CASE symbol = sym_comment -> ACTIONS_(3)
    [] symbol = anon_sym_location -> ACTIONS_(43)
    [] symbol = anon_sym_RBRACE -> ACTIONS_(102)
    [] symbol = anon_sym_name -> ACTIONS_(104)
    [] symbol = anon_sym_desc -> ACTIONS_(106)
    [] symbol = anon_sym_description -> ACTIONS_(108)
    [] symbol = anon_sym_state -> ACTIONS_(110)
    [] symbol = anon_sym_movement -> ACTIONS_(112)
    [] symbol = anon_sym_dialogue -> ACTIONS_(114)
    [] symbol \in {sym_npc_stmt, aux_sym_npc_block_repeat1} -> STATE_(13)
    [] symbol \in {sym_npc_name, sym_npc_desc, sym_npc_state, sym_movement_stmt, sym_dialogue_stmt,
    sym_location} -> STATE_(74)
    [] OTHER -> 0
\* the row of parse state 140, where a comma after an exit attribute has no action
ts_small_parse_table_140_no_comma(symbol) ==
  CASE symbol = sym_comment -> ACTIONS_(3)
    [] symbol = anon_sym_COMMA -> 0
    [] symbol \in {anon_sym_RBRACE, anon_sym_required_flags, anon_sym_required_items, anon_sym_barred} -> ACTIONS_(618)
    [] OTHER -> 0
\* the row of parse state 140
ts_small_parse_table_140(symbol) ==
  CASE symbol = sym_comment -> ACTIONS_(3)
    [] symbol = anon_sym_COMMA -> ACTIONS_(616)
    [] symbol \in {anon_sym_RBRACE, anon_sym_required_flags, anon_sym_required_items, anon_sym_barred} -> ACTIONS_(618)
    [] OTHER -> 0
ts_parse_table(state, symbol) ==
  CASE state = 0 ->
       (CASE symbol \in {ts_builtin_sym_end, sym_number, aux_sym_string_token1, aux_sym_string_token2, 
                aux_sym_string_token3, aux_sym_string_token4, aux_sym_string_token5, anon_sym_true, 
                anon_sym_false, anon_sym_let, anon_sym_set, anon_sym_EQ, anon_sym_LPAREN, anon_sym_COMMA, 
                anon_sym_RPAREN, anon_sym_trigger, anon_sym_only, anon_sym_once, anon_sym_when, 
                anon_sym_LBRACE, anon_sym_RBRACE, anon_sym_if, anon_sym_do, anon_sym_room, anon_sym_name, 
                anon_sym_desc, anon_sym_description, anon_sym_visited, anon_sym_overlay, anon_sym_unset, 
                anon_sym_text, anon_sym_normal, anon_sym_happy, anon_sym_bored, anon_sym_exit, 
                anon_sym_DASH_GT, anon_sym_required_flags, anon_sym_required_items, anon_sym_barred, 
                anon_sym_item, anon_sym_portable, anon_sym_ability, anon_sym_container, anon_sym_state, 
                anon_sym_open, anon_sym_closed, anon_sym_restricted, anon_sym_spinner, anon_sym_wedge, 
                anon_sym_width, anon_sym_npc, anon_sym_mad, anon_sym_custom, anon_sym_movement, 
                anon_sym_random, anon_sym_route, anon_sym_timing, anon_sym_active, anon_sym_dialogue, 
                anon_sym_location, anon_sym_chest, anon_sym_inventory, anon_sym_player, anon_sym_nowhere, 
                anon_sym_goal, anon_sym_group, anon_sym_required, anon_sym_optional, 
                anon_sym_status_DASHeffect, anon_sym_start, anon_sym_has, anon_sym_flag, anon_sym_missing, 
                anon_sym_reached, anon_sym_complete, anon_sym_in, anon_sym_progress} -> ACTIONS_(1)
          [] symbol = sym_comment -> ACTIONS_(3)
          [] OTHER -> 0)
    [] state = 1 -> ts_parse_table_1(symbol)
    [] OTHER -> 0

\* rows are keyed by parse state: ts_small_parse_table_map gives the offset of each row
ts_small_parse_table(state, symbol) ==
  CASE state = 2 ->
       (CASE symbol = sym_comment -> ACTIONS_(3)
          [] symbol \in {aux_sym_string_token1, aux_sym_string_token2} -> ACTIONS_(23)
          [] symbol \in {ts_builtin_sym_end, aux_sym_string_token3, aux_sym_string_token4, aux_sym_string_token5, 
                anon_sym_let, anon_sym_set, anon_sym_COMMA, anon_sym_trigger, anon_sym_only, anon_sym_when, 
                anon_sym_LBRACE, anon_sym_RBRACE, anon_sym_room, anon_sym_desc, anon_sym_unset, 
                anon_sym_text, anon_sym_normal, anon_sym_happy, anon_sym_bored, anon_sym_DASH_GT, 
                anon_sym_required_flags, anon_sym_required_items, anon_sym_barred, anon_sym_item, 
                anon_sym_spinner, anon_sym_wedge, anon_sym_width, anon_sym_npc, anon_sym_goal, 
                anon_sym_group, anon_sym_done, anon_sym_start} -> ACTIONS_(21)
          [] OTHER -> 0)
    [] state = 3 ->
       (CASE symbol = sym_comment -> ACTIONS_(3)
          [] symbol = anon_sym_RBRACE -> ACTIONS_(25)
          [] symbol = anon_sym_name -> ACTIONS_(27)
          [] symbol = anon_sym_desc -> ACTIONS_(29)
          [] symbol = anon_sym_description -> ACTIONS_(31)
          [] symbol = anon_sym_text -> ACTIONS_(33)
          [] symbol = anon_sym_portable -> ACTIONS_(35)
          [] symbol = anon_sym_ability -> ACTIONS_(37)
          [] symbol = anon_sym_container -> ACTIONS_(39)
          [] symbol = anon_sym_restricted -> ACTIONS_(41)
          [] symbol = anon_sym_location -> ACTIONS_(43)
          [] symbol = sym_location -> STATE_(48)
          [] symbol \in {sym_item_stmt, aux_sym_item_block_repeat1} -> STATE_(5)
          [] symbol \in {sym_item_name, sym_item_desc, sym_item_portable, sym_item_text, sym_item_location, 
                sym_item_ability, sym_item_container_state, sym_item_restricted} -> STATE_(49)
          [] OTHER -> 0)
    [] state = 4 ->
       (CASE symbol = sym_comment -> ACTIONS_(3)
          [] symbol = anon_sym_RBRACE -> ACTIONS_(45)
          [] symbol = anon_sym_name -> ACTIONS_(47)
          [] symbol = anon_sym_desc -> ACTIONS_(50)
          [] symbol = anon_sym_description -> ACTIONS_(53)
          [] symbol = anon_sym_text -> ACTIONS_(56)
          [] symbol = anon_sym_portable -> ACTIONS_(59)
          [] symbol = anon_sym_ability -> ACTIONS_(62)
          [] symbol = anon_sym_container -> ACTIONS_(65)
          [] symbol = anon_sym_restricted -> ACTIONS_(68)
          [] symbol = anon_sym_location -> ACTIONS_(71)
          [] symbol = sym_location -> STATE_(48)
          [] symbol \in {sym_item_stmt, aux_sym_item_block_repeat1} -> STATE_(4)
          [] symbol \in {sym_item_name, sym_item_desc, sym_item_portable, sym_item_text, sym_item_location, 
                sym_item_ability, sym_item_container_state, sym_item_restricted} -> STATE_(49)
          [] OTHER -> 0)
    [] state = 5 ->
       (CASE symbol = sym_comment -> ACTIONS_(3)
          [] symbol = anon_sym_name -> ACTIONS_(27)
          [] symbol = anon_sym_desc -> ACTIONS_(29)
          [] symbol = anon_sym_description -> ACTIONS_(31)
          [] symbol = anon_sym_text -> ACTIONS_(33)
          [] symbol = anon_sym_portable -> ACTIONS_(35)
          [] symbol = anon_sym_ability -> ACTIONS_(37)
          [] symbol = anon_sym_container -> ACTIONS_(39)
          [] symbol = anon_sym_restricted -> ACTIONS_(41)
          [] symbol = anon_sym_location -> ACTIONS_(43)
          [] symbol = anon_sym_RBRACE -> ACTIONS_(74)
          [] symbol = sym_location -> STATE_(48)
          [] symbol \in {sym_item_stmt, aux_sym_item_block_repeat1} -> STATE_(4)
          [] symbol \in {sym_item_name, sym_item_desc, sym_item_portable, sym_item_text, sym_item_location, 
                sym_item_ability, sym_item_container_state, sym_item_restricted} -> STATE_(49)
          [] OTHER -> 0)
    [] state = 6 -> ts_small_parse_table_6(symbol)
    [] state = 7 ->
       (CASE symbol = sym_comment -> ACTIONS_(3)
          [] symbol = anon_sym_desc -> ACTIONS_(78)
          [] symbol = anon_sym_group -> ACTIONS_(80)
          [] symbol = anon_sym_done -> ACTIONS_(82)
          [] symbol = anon_sym_start -> ACTIONS_(84)
          [] symbol \in {sym_goal_stmt, aux_sym_goal_def_repeat1} -> STATE_(6)
          [] symbol \in {sym_goal_desc, sym_goal_group, sym_goal_done, sym_goal_start} -> STATE_(33)
          [] symbol \in {ts_builtin_sym_end, anon_sym_let, anon_sym_trigger, anon_sym_room, anon_sym_item, 
                anon_sym_spinner, anon_sym_npc, anon_sym_goal} -> ACTIONS_(86)
          [] OTHER -> 0)
    [] state = 8 ->
       (CASE symbol = sym_comment -> ACTIONS_(3)
          [] symbol = anon_sym_desc -> ACTIONS_(90)
          [] symbol = anon_sym_group -> ACTIONS_(93)
          [] symbol = anon_sym_done -> ACTIONS_(96)
          [] symbol = anon_sym_start -> ACTIONS_(99)
          [] symbol \in {sym_goal_stmt, aux_sym_goal_def_repeat1} -> STATE_(8)
          [] symbol \in {sym_goal_desc, sym_goal_group, sym_goal_done, sym_goal_start} -> STATE_(33)
          [] symbol \in {ts_builtin_sym_end, anon_sym_let, anon_sym_trigger, anon_sym_room, anon_sym_item, 
                anon_sym_spinner, anon_sym_npc, anon_sym_goal} -> ACTIONS_(88)
          [] OTHER -> 0)
    [] state = 9 -> ts_small_parse_table_9(symbol)
    [] state = 10 -> ts_small_parse_table_10(symbol)
    [] state = 11 ->
       (CASE symbol = sym_comment -> ACTIONS_(3)
          [] symbol = anon_sym_desc -> ACTIONS_(23)
          [] symbol \in {anon_sym_RBRACE, anon_sym_name, anon_sym_description, anon_sym_visited, anon_sym_overlay, 
                anon_sym_text, anon_sym_exit, anon_sym_portable, anon_sym_ability, anon_sym_container, 
                anon_sym_state, anon_sym_restricted, anon_sym_movement, anon_sym_dialogue, 
                anon_sym_location} -> ACTIONS_(21)
          [] OTHER -> 0)
    [] state = 12 ->
       (CASE symbol = sym_comment -> ACTIONS_(3)
          [] symbol = anon_sym_RBRACE -> ACTIONS_(118)
          [] symbol = anon_sym_name -> ACTIONS_(120)
          [] symbol = anon_sym_desc -> ACTIONS_(123)
          [] symbol = anon_sym_description -> ACTIONS_(126)
          [] symbol = anon_sym_state -> ACTIONS_(129)
          [] symbol = anon_sym_movement -> ACTIONS_(132)
          [] symbol = anon_sym_dialogue -> ACTIONS_(135)
          [] symbol = anon_sym_location -> ACTIONS_(138)
          [] symbol \in {sym_npc_stmt, aux_sym_npc_block_repeat1} -> STATE_(12)
          [] symbol \in {sym_npc_name, sym_npc_desc, sym_npc_state, sym_movement_stmt, sym_dialogue_stmt, 
                sym_location} -> STATE_(74)
          [] OTHER -> 0)
    [] state = 13 ->
       (CASE symbol = sym_comment -> ACTIONS_(3)
          [] symbol = anon_sym_location -> ACTIONS_(43)
          [] symbol = anon_sym_name -> ACTIONS_(104)
          [] symbol = anon_sym_desc -> ACTIONS_(106)
          [] symbol = anon_sym_description -> ACTIONS_(108)
          [] symbol = anon_sym_state -> ACTIONS_(110)
          [] symbol = anon_sym_movement -> ACTIONS_(112)
          [] symbol = anon_sym_dialogue -> ACTIONS_(114)
          [] symbol = anon_sym_RBRACE -> ACTIONS_(141)
          [] symbol \in {sym_npc_stmt, aux_sym_npc_block_repeat1} -> STATE_(12)
          [] symbol \in {sym_npc_name, sym_npc_desc, sym_npc_state, sym_movement_stmt, sym_dialogue_stmt, 
                sym_location} -> STATE_(74)
          [] OTHER -> 0)
    [] state = 14 ->
       (CASE symbol = sym_comment -> ACTIONS_(3)
          [] symbol = ts_builtin_sym_end -> ACTIONS_(143)
          [] symbol = anon_sym_let -> ACTIONS_(145)
          [] symbol = anon_sym_trigger -> ACTIONS_(148)
          [] symbol = anon_sym_room -> ACTIONS_(151)
          [] symbol = anon_sym_item -> ACTIONS_(154)
          [] symbol = anon_sym_spinner -> ACTIONS_(157)
          [] symbol = anon_sym_npc -> ACTIONS_(160)
          [] symbol = anon_sym_goal -> ACTIONS_(163)
          [] symbol \in {sym_set_decl, sym_trigger, sym_room_def, sym_item_def, sym_spinner_def, sym_npc_def, 
                sym_goal_def, aux_sym_program_repeat1} -> STATE_(14)
          [] OTHER -> 0)
    [] state = 15 ->
       (CASE symbol = sym_comment -> ACTIONS_(3)
          [] symbol = anon_sym_desc -> ACTIONS_(168)
          [] symbol \in {anon_sym_RBRACE, anon_sym_name, anon_sym_description, anon_sym_visited, anon_sym_overlay, 
                anon_sym_text, anon_sym_exit, anon_sym_portable, anon_sym_ability, anon_sym_container, 
                anon_sym_state, anon_sym_restricted, anon_sym_movement, anon_sym_dialogue, 
                anon_sym_location} -> ACTIONS_(166)
          [] OTHER -> 0)
    [] state = 16 ->
       (CASE symbol = sym_comment -> ACTIONS_(3)
          [] symbol = anon_sym_RBRACE -> ACTIONS_(170)
          [] symbol = anon_sym_name -> ACTIONS_(172)
          [] symbol = anon_sym_desc -> ACTIONS_(174)
          [] symbol = anon_sym_description -> ACTIONS_(176)
          [] symbol = anon_sym_visited -> ACTIONS_(178)
          [] symbol = anon_sym_overlay -> ACTIONS_(180)
          [] symbol = anon_sym_exit -> ACTIONS_(182)
          [] symbol \in {sym_room_stmt, aux_sym_room_block_repeat1} -> STATE_(19)
          [] symbol \in {sym_room_name, sym_room_desc, sym_room_visited, sym_overlay_stmt, sym_exit_stmt} -> STATE_(105)
          [] OTHER -> 0)
    [] state = 17 ->
       (CASE symbol = sym_comment -> ACTIONS_(3)
          [] symbol = anon_sym_name -> ACTIONS_(172)
          [] symbol = anon_sym_desc -> ACTIONS_(174)
          [] symbol = anon_sym_description -> ACTIONS_(176)
          [] symbol = anon_sym_visited -> ACTIONS_(178)
          [] symbol = anon_sym_overlay -> ACTIONS_(180)
          [] symbol = anon_sym_exit -> ACTIONS_(182)
          [] symbol = anon_sym_RBRACE -> ACTIONS_(184)
          [] symbol \in {sym_room_stmt, aux_sym_room_block_repeat1} -> STATE_(16)
          [] symbol \in {sym_room_name, sym_room_desc, sym_room_visited, sym_overlay_stmt, sym_exit_stmt} -> STATE_(105)
          [] OTHER -> 0)
    [] state = 18 ->
       (CASE symbol = sym_comment -> ACTIONS_(3)
          [] symbol = anon_sym_LBRACE -> ACTIONS_(192)
          [] symbol = anon_sym_RBRACE -> ACTIONS_(194)
          [] symbol = sym_braced_block -> STATE_(145)
          [] symbol \in {sym_identifier, sym_number} -> ACTIONS_(186)
          [] symbol \in {aux_sym_string_token1, aux_sym_string_token2} -> ACTIONS_(188)
          [] symbol \in {anon_sym_if, anon_sym_do} -> ACTIONS_(196)
          [] symbol \in {sym_string, aux_sym_do_stmt_repeat1} -> STATE_(24)
          [] symbol \in {aux_sym_string_token3, aux_sym_string_token4, aux_sym_string_token5} -> ACTIONS_(190)
          [] OTHER -> 0)
    [] state = 19 ->
       (CASE symbol = sym_comment -> ACTIONS_(3)
          [] symbol = anon_sym_RBRACE -> ACTIONS_(198)
          [] symbol = anon_sym_name -> ACTIONS_(200)
          [] symbol = anon_sym_desc -> ACTIONS_(203)
          [] symbol = anon_sym_description -> ACTIONS_(206)
          [] symbol = anon_sym_visited -> ACTIONS_(209)
          [] symbol = anon_sym_overlay -> ACTIONS_(212)
          [] symbol = anon_sym_exit -> ACTIONS_(215)
          [] symbol \in {sym_room_stmt, aux_sym_room_block_repeat1} -> STATE_(19)
          [] symbol \in {sym_room_name, sym_room_desc, sym_room_visited, sym_overlay_stmt, sym_exit_stmt} -> STATE_(105)
          [] OTHER -> 0)
    [] state = 20 ->
       (CASE symbol = sym_comment -> ACTIONS_(3)
          [] symbol = anon_sym_desc -> ACTIONS_(220)
          [] symbol \in {anon_sym_RBRACE, anon_sym_name, anon_sym_description, anon_sym_text, anon_sym_portable, 
                anon_sym_ability, anon_sym_container, anon_sym_state, anon_sym_restricted, 
                anon_sym_movement, anon_sym_dialogue, anon_sym_location} -> ACTIONS_(218)
          [] OTHER -> 0)
    [] state = 21 ->
       (CASE symbol = sym_comment -> ACTIONS_(3)
          [] symbol = sym_cond_line_ext -> STATE_(171)
          [] symbol \in {sym_identifier, sym_number} -> ACTIONS_(222)
          [] symbol \in {aux_sym_string_token1, aux_sym_string_token2} -> ACTIONS_(224)
          [] symbol \in {sym_string, aux_sym_cond_line_ext_repeat1} -> STATE_(23)
          [] symbol \in {aux_sym_string_token3, aux_sym_string_token4, aux_sym_string_token5} -> ACTIONS_(226)
          [] symbol \in {anon_sym_LPAREN, anon_sym_COMMA, anon_sym_RPAREN} -> ACTIONS_(228)
          [] OTHER -> 0)
    [] state = 22 ->
       (CASE symbol = sym_comment -> ACTIONS_(3)
          [] symbol = anon_sym_LBRACE -> ACTIONS_(242)
          [] symbol \in {sym_identifier, sym_number} -> ACTIONS_(230)
          [] symbol \in {aux_sym_string_token1, aux_sym_string_token2} -> ACTIONS_(233)
          [] symbol \in {sym_string, aux_sym_cond_line_ext_repeat1} -> STATE_(22)
          [] symbol \in {aux_sym_string_token3, aux_sym_string_token4, aux_sym_string_token5} -> ACTIONS_(236)
          [] symbol \in {anon_sym_LPAREN, anon_sym_COMMA, anon_sym_RPAREN} -> ACTIONS_(239)
          [] OTHER -> 0)
    [] state = 23 ->
       (CASE symbol = sym_comment -> ACTIONS_(3)
          [] symbol = anon_sym_LBRACE -> ACTIONS_(248)
          [] symbol \in {aux_sym_string_token1, aux_sym_string_token2} -> ACTIONS_(224)
          [] symbol \in {sym_identifier, sym_number} -> ACTIONS_(244)
          [] symbol \in {sym_string, aux_sym_cond_line_ext_repeat1} -> STATE_(22)
          [] symbol \in {aux_sym_string_token3, aux_sym_string_token4, aux_sym_string_token5} -> ACTIONS_(226)
          [] symbol \in {anon_sym_LPAREN, anon_sym_COMMA, anon_sym_RPAREN} -> ACTIONS_(246)
          [] OTHER -> 0)
    [] state = 24 ->
       (CASE symbol = sym_comment -> ACTIONS_(3)
          [] symbol \in {sym_identifier, sym_number} -> ACTIONS_(250)
          [] symbol \in {aux_sym_string_token1, aux_sym_string_token2} -> ACTIONS_(253)
          [] symbol \in {anon_sym_LBRACE, anon_sym_RBRACE} -> ACTIONS_(259)
          [] symbol \in {anon_sym_if, anon_sym_do} -> ACTIONS_(261)
          [] symbol \in {sym_string, aux_sym_do_stmt_repeat1} -> STATE_(24)
          [] symbol \in {aux_sym_string_token3, aux_sym_string_token4, aux_sym_string_token5} -> ACTIONS_(256)
          [] OTHER -> 0)
    [] state = 25 ->
       (CASE symbol = sym_comment -> ACTIONS_(3)
          [] symbol = sym_cond_line_ext -> STATE_(169)
          [] symbol \in {sym_identifier, sym_number} -> ACTIONS_(222)
          [] symbol \in {aux_sym_string_token1, aux_sym_string_token2} -> ACTIONS_(224)
          [] symbol \in {sym_string, aux_sym_cond_line_ext_repeat1} -> STATE_(23)
          [] symbol \in {aux_sym_string_token3, aux_sym_string_token4, aux_sym_string_token5} -> ACTIONS_(226)
          [] symbol \in {anon_sym_LPAREN, anon_sym_COMMA, anon_sym_RPAREN} -> ACTIONS_(228)
          [] OTHER -> 0)
    [] state = 26 -> ts_small_parse_table_26(symbol)
    [] state = 27 ->
       (CASE symbol = sym_comment -> ACTIONS_(3)
          [] symbol \in {ts_builtin_sym_end, anon_sym_let, anon_sym_trigger, anon_sym_room, anon_sym_desc, 
                anon_sym_item, anon_sym_spinner, anon_sym_npc, anon_sym_goal, anon_sym_group, 
                anon_sym_done, anon_sym_start} -> ACTIONS_(273)
          [] OTHER -> 0)
    [] state = 28 ->
       (CASE symbol = sym_comment -> ACTIONS_(3)
          [] symbol \in {ts_builtin_sym_end, anon_sym_let, anon_sym_trigger, anon_sym_room, anon_sym_desc, 
                anon_sym_item, anon_sym_spinner, anon_sym_npc, anon_sym_goal, anon_sym_group, 
                anon_sym_done, anon_sym_start} -> ACTIONS_(275)
          [] OTHER -> 0)
    [] state = 29 ->
       (CASE symbol = sym_comment -> ACTIONS_(3)
          [] symbol \in {ts_builtin_sym_end, anon_sym_let, anon_sym_trigger, anon_sym_room, anon_sym_desc, 
                anon_sym_item, anon_sym_spinner, anon_sym_npc, anon_sym_goal, anon_sym_group, 
                anon_sym_done, anon_sym_start} -> ACTIONS_(277)
          [] OTHER -> 0)
    [] state = 30 ->
       (CASE symbol = sym_comment -> ACTIONS_(3)
          [] symbol \in {ts_builtin_sym_end, anon_sym_let, anon_sym_trigger, anon_sym_room, anon_sym_desc, 
                anon_sym_item, anon_sym_spinner, anon_sym_npc, anon_sym_goal, anon_sym_group, 
                anon_sym_done, anon_sym_start} -> ACTIONS_(279)
          [] OTHER -> 0)
    [] state = 31 ->
       (CASE symbol = sym_comment -> ACTIONS_(3)
          [] symbol \in {ts_builtin_sym_end, anon_sym_let, anon_sym_trigger, anon_sym_room, anon_sym_desc, 
                anon_sym_item, anon_sym_spinner, anon_sym_npc, anon_sym_goal, anon_sym_group, 
                anon_sym_done, anon_sym_start} -> ACTIONS_(281)
          [] OTHER -> 0)
    [] state = 32 ->
       (CASE symbol = sym_comment -> ACTIONS_(3)
          [] symbol \in {ts_builtin_sym_end, anon_sym_let, anon_sym_trigger, anon_sym_room, anon_sym_desc, 
                anon_sym_item, anon_sym_spinner, anon_sym_npc, anon_sym_goal, anon_sym_group, 
                anon_sym_done, anon_sym_start} -> ACTIONS_(283)
          [] OTHER -> 0)
    [] state = 33 ->
       (CASE symbol = sym_comment -> ACTIONS_(3)
          [] symbol \in {ts_builtin_sym_end, anon_sym_let, anon_sym_trigger, anon_sym_room, anon_sym_desc, 
                anon_sym_item, anon_sym_spinner, anon_sym_npc, anon_sym_goal, anon_sym_group, 
                anon_sym_done, anon_sym_start} -> ACTIONS_(285)
          [] OTHER -> 0)
    [] state = 34 ->
       (CASE symbol = sym_comment -> ACTIONS_(3)
          [] symbol = anon_sym_LBRACE -> ACTIONS_(259)
          [] symbol \in {anon_sym_only, anon_sym_when} -> ACTIONS_(261)
          [] symbol \in {sym_identifier, sym_number} -> ACTIONS_(287)
          [] symbol \in {aux_sym_string_token1, aux_sym_string_token2} -> ACTIONS_(290)
          [] symbol \in {sym_string, aux_sym_do_stmt_repeat1} -> STATE_(34)
          [] symbol \in {aux_sym_string_token3, aux_sym_string_token4, aux_sym_string_token5} -> ACTIONS_(293)
          [] OTHER -> 0)
    [] state = 35 ->
       (CASE symbol = sym_comment -> ACTIONS_(3)
          [] symbol \in {aux_sym_string_token3, aux_sym_string_token4, aux_sym_string_token5, anon_sym_LBRACE, 
                anon_sym_RBRACE} -> ACTIONS_(21)
          [] symbol \in {sym_identifier, sym_number, aux_sym_string_token1, aux_sym_string_token2, anon_sym_if, 
                anon_sym_do} -> ACTIONS_(23)
          [] OTHER -> 0)
    [] state = 36 ->
       (CASE symbol = sym_comment -> ACTIONS_(3)
          [] symbol \in {sym_identifier, sym_number, aux_sym_string_token1, aux_sym_string_token2} -> ACTIONS_(23)
          [] symbol \in {aux_sym_string_token3, aux_sym_string_token4, aux_sym_string_token5, anon_sym_LPAREN, 
                anon_sym_COMMA, anon_sym_RPAREN, anon_sym_LBRACE} -> ACTIONS_(21)
          [] OTHER -> 0)
    [] state = 37 ->
       (CASE symbol = sym_comment -> ACTIONS_(3)
          [] symbol = anon_sym_desc -> ACTIONS_(298)
          [] symbol \in {anon_sym_RBRACE, anon_sym_name, anon_sym_description, anon_sym_text, anon_sym_portable, 
                anon_sym_ability, anon_sym_container, anon_sym_restricted, anon_sym_location} -> ACTIONS_(296)
          [] OTHER -> 0)
    [] state = 38 ->
       (CASE symbol = sym_comment -> ACTIONS_(3)
          [] symbol = anon_sym_desc -> ACTIONS_(302)
          [] symbol \in {anon_sym_RBRACE, anon_sym_name, anon_sym_description, anon_sym_text, anon_sym_portable, 
                anon_sym_ability, anon_sym_container, anon_sym_restricted, anon_sym_location} -> ACTIONS_(300)
          [] OTHER -> 0)
    [] state = 39 ->
       (CASE symbol = sym_comment -> ACTIONS_(3)
          [] symbol = anon_sym_desc -> ACTIONS_(306)
          [] symbol = anon_sym_timing -> ACTIONS_(308)
          [] symbol = anon_sym_active -> ACTIONS_(310)
          [] symbol \in {anon_sym_RBRACE, anon_sym_name, anon_sym_description, anon_sym_state, anon_sym_movement, 
                anon_sym_dialogue, anon_sym_location} -> ACTIONS_(304)
          [] OTHER -> 0)
    [] state = 40 ->
       (CASE symbol = sym_comment -> ACTIONS_(3)
          [] symbol = anon_sym_desc -> ACTIONS_(314)
          [] symbol \in {anon_sym_RBRACE, anon_sym_name, anon_sym_description, anon_sym_text, anon_sym_portable, 
                anon_sym_ability, anon_sym_container, anon_sym_restricted, anon_sym_location} -> ACTIONS_(312)
          [] OTHER -> 0)
    [] state = 41 ->
       (CASE symbol = sym_comment -> ACTIONS_(3)
          [] symbol = anon_sym_desc -> ACTIONS_(318)
          [] symbol \in {anon_sym_RBRACE, anon_sym_name, anon_sym_description, anon_sym_text, anon_sym_portable, 
                anon_sym_ability, anon_sym_container, anon_sym_restricted, anon_sym_location} -> ACTIONS_(316)
          [] OTHER -> 0)
    [] state = 42 ->
       (CASE symbol = sym_comment -> ACTIONS_(3)
          [] symbol = anon_sym_desc -> ACTIONS_(322)
          [] symbol \in {anon_sym_RBRACE, anon_sym_name, anon_sym_description, anon_sym_text, anon_sym_portable, 
                anon_sym_ability, anon_sym_container, anon_sym_restricted, anon_sym_location} -> ACTIONS_(320)
          [] OTHER -> 0)
    [] state = 43 ->
       (CASE symbol = sym_comment -> ACTIONS_(3)
          [] symbol = anon_sym_desc -> ACTIONS_(326)
          [] symbol \in {anon_sym_RBRACE, anon_sym_name, anon_sym_description, anon_sym_text, anon_sym_portable, 
                anon_sym_ability, anon_sym_container, anon_sym_restricted, anon_sym_location} -> ACTIONS_(324)
          [] OTHER -> 0)
    [] state = 44 ->
       (CASE symbol = sym_comment -> ACTIONS_(3)
          [] symbol = sym_cond_line -> STATE_(152)
          [] symbol \in {aux_sym_string_token1, aux_sym_string_token2} -> ACTIONS_(265)
          [] symbol \in {sym_identifier, sym_number} -> ACTIONS_(328)
          [] symbol \in {sym_string, aux_sym_do_stmt_repeat1} -> STATE_(26)
          [] symbol \in {aux_sym_string_token3, aux_sym_string_token4, aux_sym_string_token5} -> ACTIONS_(267)
          [] OTHER -> 0)
    [] state = 45 ->
       (CASE symbol = sym_comment -> ACTIONS_(3)
          [] symbol = anon_sym_desc -> ACTIONS_(332)
          [] symbol \in {anon_sym_RBRACE, anon_sym_name, anon_sym_description, anon_sym_text, anon_sym_portable, 
                anon_sym_ability, anon_sym_container, anon_sym_restricted, anon_sym_location} -> ACTIONS_(330)
          [] OTHER -> 0)
    [] state = 46 ->
       (CASE symbol = sym_comment -> ACTIONS_(3)
          [] symbol \in {aux_sym_string_token3, aux_sym_string_token4, aux_sym_string_token5, anon_sym_LBRACE} -> ACTIONS_(21)
          [] symbol \in {sym_identifier, sym_number, aux_sym_string_token1, aux_sym_string_token2, anon_sym_only, 
                anon_sym_when} -> ACTIONS_(23)
          [] OTHER -> 0)
    [] state = 47 ->
       (CASE symbol = sym_comment -> ACTIONS_(3)
          [] symbol = anon_sym_desc -> ACTIONS_(336)
          [] symbol = anon_sym_timing -> ACTIONS_(338)
          [] symbol = anon_sym_active -> ACTIONS_(340)
          [] symbol \in {anon_sym_RBRACE, anon_sym_name, anon_sym_description, anon_sym_state, anon_sym_movement, 
                anon_sym_dialogue, anon_sym_location} -> ACTIONS_(334)
          [] OTHER -> 0)
    [] state = 48 ->
       (CASE symbol = sym_comment -> ACTIONS_(3)
          [] symbol = anon_sym_desc -> ACTIONS_(344)
          [] symbol \in {anon_sym_RBRACE, anon_sym_name, anon_sym_description, anon_sym_text, anon_sym_portable, 
                anon_sym_ability, anon_sym_container, anon_sym_restricted, anon_sym_location} -> ACTIONS_(342)
          [] OTHER -> 0)
    [] state = 49 ->
       (CASE symbol = sym_comment -> ACTIONS_(3)
          [] symbol = anon_sym_desc -> ACTIONS_(348)
          [] symbol \in {anon_sym_RBRACE, anon_sym_name, anon_sym_description, anon_sym_text, anon_sym_portable, 
                anon_sym_ability, anon_sym_container, anon_sym_restricted, anon_sym_location} -> ACTIONS_(346)
          [] OTHER -> 0)
    [] state = 50 ->
       (CASE symbol = sym_comment -> ACTIONS_(3)
          [] symbol = anon_sym_RBRACE -> ACTIONS_(350)
          [] symbol = anon_sym_required_flags -> ACTIONS_(352)
          [] symbol = anon_sym_required_items -> ACTIONS_(354)
          [] symbol = anon_sym_barred -> ACTIONS_(356)
          [] symbol \in {sym_exit_attr, aux_sym_exit_block_repeat1} -> STATE_(55)
          [] symbol \in {sym_exit_required_flags, sym_exit_required_items, sym_exit_barred} -> STATE_(140)
          [] OTHER -> 0)
    [] state = 51 ->
       (CASE symbol = sym_comment -> ACTIONS_(3)
          [] symbol = anon_sym_RBRACE -> ACTIONS_(360)
          [] symbol \in {sym_overlay_entry, aux_sym_overlay_block_repeat1} -> STATE_(57)
          [] symbol \in {anon_sym_set, anon_sym_unset, anon_sym_text, anon_sym_normal, anon_sym_happy, 
                anon_sym_bored} -> ACTIONS_(358)
          [] OTHER -> 0)
    [] state = 52 ->
       (CASE symbol = sym_comment -> ACTIONS_(3)
          [] symbol = anon_sym_desc -> ACTIONS_(364)
          [] symbol = anon_sym_active -> ACTIONS_(366)
          [] symbol \in {anon_sym_RBRACE, anon_sym_name, anon_sym_description, anon_sym_state, anon_sym_movement, 
                anon_sym_dialogue, anon_sym_location} -> ACTIONS_(362)
          [] OTHER -> 0)
    [] state = 53 ->
       (CASE symbol = sym_comment -> ACTIONS_(3)
          [] symbol = anon_sym_desc -> ACTIONS_(370)
          [] symbol = anon_sym_active -> ACTIONS_(372)
          [] symbol \in {anon_sym_RBRACE, anon_sym_name, anon_sym_description, anon_sym_state, anon_sym_movement, 
                anon_sym_dialogue, anon_sym_location} -> ACTIONS_(368)
          [] OTHER -> 0)
    [] state = 54 ->
       (CASE symbol = sym_comment -> ACTIONS_(3)
          [] symbol = anon_sym_RBRACE -> ACTIONS_(374)
          [] symbol = anon_sym_required_flags -> ACTIONS_(376)
          [] symbol = anon_sym_required_items -> ACTIONS_(379)
          [] symbol = anon_sym_barred -> ACTIONS_(382)
          [] symbol \in {sym_exit_attr, aux_sym_exit_block_repeat1} -> STATE_(54)
          [] symbol \in {sym_exit_required_flags, sym_exit_required_items, sym_exit_barred} -> STATE_(140)
          [] OTHER -> 0)
    [] state = 55 ->
       (CASE symbol = sym_comment -> ACTIONS_(3)
          [] symbol = anon_sym_required_flags -> ACTIONS_(352)
          [] symbol = anon_sym_required_items -> ACTIONS_(354)
          [] symbol = anon_sym_barred -> ACTIONS_(356)
          [] symbol = anon_sym_RBRACE -> ACTIONS_(385)
          [] symbol \in {sym_exit_attr, aux_sym_exit_block_repeat1} -> STATE_(54)
          [] symbol \in {sym_exit_required_flags, sym_exit_required_items, sym_exit_barred} -> STATE_(140)
          [] OTHER -> 0)
    [] state = 56 ->
       (CASE symbol = sym_comment -> ACTIONS_(3)
          [] symbol = anon_sym_RBRACE -> ACTIONS_(390)
          [] symbol \in {sym_overlay_entry, aux_sym_overlay_block_repeat1} -> STATE_(56)
          [] symbol \in {anon_sym_set, anon_sym_unset, anon_sym_text, anon_sym_normal, anon_sym_happy, 
                anon_sym_bored} -> ACTIONS_(387)
          [] OTHER -> 0)
    [] state = 57 ->
       (CASE symbol = sym_comment -> ACTIONS_(3)
          [] symbol = anon_sym_RBRACE -> ACTIONS_(392)
          [] symbol \in {sym_overlay_entry, aux_sym_overlay_block_repeat1} -> STATE_(56)
          [] symbol \in {anon_sym_set, anon_sym_unset, anon_sym_text, anon_sym_normal, anon_sym_happy, 
                anon_sym_bored} -> ACTIONS_(358)
          [] OTHER -> 0)
    [] state = 58 ->
       (CASE symbol = sym_comment -> ACTIONS_(3)
          [] symbol \in {aux_sym_string_token1, aux_sym_string_token2} -> ACTIONS_(188)
          [] symbol \in {sym_identifier, sym_number} -> ACTIONS_(394)
          [] symbol \in {sym_string, aux_sym_do_stmt_repeat1} -> STATE_(18)
          [] symbol \in {aux_sym_string_token3, aux_sym_string_token4, aux_sym_string_token5} -> ACTIONS_(190)
          [] OTHER -> 0)
    [] state = 59 ->
       (CASE symbol = sym_comment -> ACTIONS_(3)
          [] symbol = anon_sym_LBRACE -> ACTIONS_(396)
          [] symbol = anon_sym_desc -> ACTIONS_(400)
          [] symbol = sym_exit_block -> STATE_(102)
          [] symbol \in {anon_sym_RBRACE, anon_sym_name, anon_sym_description, anon_sym_visited, anon_sym_overlay, 
                anon_sym_exit} -> ACTIONS_(398)
          [] OTHER -> 0)
    [] state = 60 ->
       (CASE symbol = sym_comment -> ACTIONS_(3)
          [] symbol \in {ts_builtin_sym_end, anon_sym_let, anon_sym_trigger, anon_sym_room, anon_sym_item, 
                anon_sym_spinner, anon_sym_npc, anon_sym_goal} -> ACTIONS_(402)
          [] OTHER -> 0)
    [] state = 61 ->
       (CASE symbol = sym_comment -> ACTIONS_(3)
          [] symbol \in {ts_builtin_sym_end, anon_sym_let, anon_sym_trigger, anon_sym_room, anon_sym_item, 
                anon_sym_spinner, anon_sym_npc, anon_sym_goal} -> ACTIONS_(404)
          [] OTHER -> 0)
    [] state = 62 ->
       (CASE symbol = sym_comment -> ACTIONS_(3)
          [] symbol = anon_sym_RBRACE -> ACTIONS_(410)
          [] symbol \in {aux_sym_string_token1, aux_sym_string_token2} -> ACTIONS_(406)
          [] symbol \in {sym_string, aux_sym_dialogue_stmt_repeat1} -> STATE_(66)
          [] symbol \in {aux_sym_string_token3, aux_sym_string_token4, aux_sym_string_token5} -> ACTIONS_(408)
          [] OTHER -> 0)
    [] state = 63 ->
       (CASE symbol = sym_comment -> ACTIONS_(3)
          [] symbol = anon_sym_RBRACE -> ACTIONS_(410)
          [] symbol \in {aux_sym_string_token1, aux_sym_string_token2} -> ACTIONS_(406)
          [] symbol \in {sym_string, aux_sym_dialogue_stmt_repeat1} -> STATE_(65)
          [] symbol \in {aux_sym_string_token3, aux_sym_string_token4, aux_sym_string_token5} -> ACTIONS_(408)
          [] OTHER -> 0)
    [] state = 64 ->
       (CASE symbol = sym_comment -> ACTIONS_(3)
          [] symbol = anon_sym_desc -> ACTIONS_(414)
          [] symbol \in {anon_sym_RBRACE, anon_sym_name, anon_sym_description, anon_sym_state, anon_sym_movement, 
                anon_sym_dialogue, anon_sym_location} -> ACTIONS_(412)
          [] OTHER -> 0)
    [] state = 65 ->
       (CASE symbol = sym_comment -> ACTIONS_(3)
          [] symbol = anon_sym_RBRACE -> ACTIONS_(422)
          [] symbol \in {aux_sym_string_token1, aux_sym_string_token2} -> ACTIONS_(416)
          [] symbol \in {sym_string, aux_sym_dialogue_stmt_repeat1} -> STATE_(65)
          [] symbol \in {aux_sym_string_token3, aux_sym_string_token4, aux_sym_string_token5} -> ACTIONS_(419)
          [] OTHER -> 0)
    [] state = 66 ->
       (CASE symbol = sym_comment -> ACTIONS_(3)
          [] symbol = anon_sym_RBRACE -> ACTIONS_(424)
          [] symbol \in {aux_sym_string_token1, aux_sym_string_token2} -> ACTIONS_(406)
          [] symbol \in {sym_string, aux_sym_dialogue_stmt_repeat1} -> STATE_(65)
          [] symbol \in {aux_sym_string_token3, aux_sym_string_token4, aux_sym_string_token5} -> ACTIONS_(408)
          [] OTHER -> 0)
    [] state = 67 ->
       (CASE symbol = sym_comment -> ACTIONS_(3)
          [] symbol \in {ts_builtin_sym_end, anon_sym_let, anon_sym_trigger, anon_sym_room, anon_sym_item, 
                anon_sym_spinner, anon_sym_npc, anon_sym_goal} -> ACTIONS_(426)
          [] OTHER -> 0)
    [] state = 68 ->
       (CASE symbol = sym_comment -> ACTIONS_(3)
          [] symbol = anon_sym_desc -> ACTIONS_(430)
          [] symbol \in {anon_sym_RBRACE, anon_sym_name, anon_sym_description, anon_sym_state, anon_sym_movement, 
                anon_sym_dialogue, anon_sym_location} -> ACTIONS_(428)
          [] OTHER -> 0)
    [] state = 69 ->
       (CASE symbol = sym_comment -> ACTIONS_(3)
          [] symbol \in {ts_builtin_sym_end, anon_sym_let, anon_sym_trigger, anon_sym_room, anon_sym_item, 
                anon_sym_spinner, anon_sym_npc, anon_sym_goal} -> ACTIONS_(432)
          [] OTHER -> 0)
    [] state = 70 ->
       (CASE symbol = sym_comment -> ACTIONS_(3)
          [] symbol = anon_sym_desc -> ACTIONS_(436)
          [] symbol \in {anon_sym_RBRACE, anon_sym_name, anon_sym_description, anon_sym_state, anon_sym_movement, 
                anon_sym_dialogue, anon_sym_location} -> ACTIONS_(434)
          [] OTHER -> 0)
    [] state = 71 ->
       (CASE symbol = sym_comment -> ACTIONS_(3)
          [] symbol \in {ts_builtin_sym_end, anon_sym_let, anon_sym_trigger, anon_sym_room, anon_sym_item, 
                anon_sym_spinner, anon_sym_npc, anon_sym_goal} -> ACTIONS_(438)
          [] OTHER -> 0)
    [] state = 72 ->
       (CASE symbol = sym_comment -> ACTIONS_(3)
          [] symbol \in {ts_builtin_sym_end, anon_sym_let, anon_sym_trigger, anon_sym_room, anon_sym_item, 
                anon_sym_spinner, anon_sym_npc, anon_sym_goal} -> ACTIONS_(440)
          [] OTHER -> 0)
    [] state = 73 ->
       (CASE symbol = sym_comment -> ACTIONS_(3)
          [] symbol \in {ts_builtin_sym_end, anon_sym_let, anon_sym_trigger, anon_sym_room, anon_sym_item, 
                anon_sym_spinner, anon_sym_npc, anon_sym_goal} -> ACTIONS_(442)
          [] OTHER -> 0)
    [] state = 74 ->
       (CASE symbol = sym_comment -> ACTIONS_(3)
          [] symbol = anon_sym_desc -> ACTIONS_(446)
          [] symbol \in {anon_sym_RBRACE, anon_sym_name, anon_sym_description, anon_sym_state, anon_sym_movement, 
                anon_sym_dialogue, anon_sym_location} -> ACTIONS_(444)
          [] OTHER -> 0)
    [] state = 75 ->
       (CASE symbol = sym_comment -> ACTIONS_(3)
          [] symbol \in {ts_builtin_sym_end, anon_sym_let, anon_sym_trigger, anon_sym_room, anon_sym_item, 
                anon_sym_spinner, anon_sym_npc, anon_sym_goal} -> ACTIONS_(448)
          [] OTHER -> 0)
    [] state = 76 ->
       (CASE symbol = sym_comment -> ACTIONS_(3)
          [] symbol \in {ts_builtin_sym_end, anon_sym_let, anon_sym_trigger, anon_sym_room, anon_sym_item, 
                anon_sym_spinner, anon_sym_npc, anon_sym_goal} -> ACTIONS_(450)
          [] OTHER -> 0)
    [] state = 77 ->
       (CASE symbol = sym_comment -> ACTIONS_(3)
          [] symbol = anon_sym_RBRACE -> ACTIONS_(452)
          [] symbol \in {aux_sym_string_token1, aux_sym_string_token2} -> ACTIONS_(406)
          [] symbol \in {sym_string, aux_sym_dialogue_stmt_repeat1} -> STATE_(63)
          [] symbol \in {aux_sym_string_token3, aux_sym_string_token4, aux_sym_string_token5} -> ACTIONS_(408)
          [] OTHER -> 0)
    [] state = 78 ->
       (CASE symbol = sym_comment -> ACTIONS_(3)
          [] symbol = anon_sym_desc -> ACTIONS_(456)
          [] symbol \in {anon_sym_RBRACE, anon_sym_name, anon_sym_description, anon_sym_state, anon_sym_movement, 
                anon_sym_dialogue, anon_sym_location} -> ACTIONS_(454)
          [] OTHER -> 0)
    [] state = 79 ->
       (CASE symbol = sym_comment -> ACTIONS_(3)
          [] symbol = anon_sym_desc -> ACTIONS_(460)
          [] symbol \in {anon_sym_RBRACE, anon_sym_name, anon_sym_description, anon_sym_state, anon_sym_movement, 
                anon_sym_dialogue, anon_sym_location} -> ACTIONS_(458)
          [] OTHER -> 0)
    [] state = 80 ->
       (CASE symbol = sym_comment -> ACTIONS_(3)
          [] symbol \in {ts_builtin_sym_end, anon_sym_let, anon_sym_trigger, anon_sym_room, anon_sym_item, 
                anon_sym_spinner, anon_sym_npc, anon_sym_goal} -> ACTIONS_(462)
          [] OTHER -> 0)
    [] state = 81 ->
       (CASE symbol = sym_comment -> ACTIONS_(3)
          [] symbol = anon_sym_desc -> ACTIONS_(466)
          [] symbol \in {anon_sym_RBRACE, anon_sym_name, anon_sym_description, anon_sym_state, anon_sym_movement, 
                anon_sym_dialogue, anon_sym_location} -> ACTIONS_(464)
          [] OTHER -> 0)
    [] state = 82 ->
       (CASE symbol = sym_comment -> ACTIONS_(3)
          [] symbol = anon_sym_desc -> ACTIONS_(470)
          [] symbol \in {anon_sym_RBRACE, anon_sym_name, anon_sym_description, anon_sym_state, anon_sym_movement, 
                anon_sym_dialogue, anon_sym_location} -> ACTIONS_(468)
          [] OTHER -> 0)
    [] state = 83 ->
       (CASE symbol = sym_comment -> ACTIONS_(3)
          [] symbol \in {ts_builtin_sym_end, anon_sym_let, anon_sym_trigger, anon_sym_room, anon_sym_item, 
                anon_sym_spinner, anon_sym_npc, anon_sym_goal} -> ACTIONS_(472)
          [] OTHER -> 0)
    [] state = 84 ->
       (CASE symbol = sym_comment -> ACTIONS_(3)
          [] symbol = anon_sym_desc -> ACTIONS_(364)
          [] symbol \in {anon_sym_RBRACE, anon_sym_name, anon_sym_description, anon_sym_state, anon_sym_movement, 
                anon_sym_dialogue, anon_sym_location} -> ACTIONS_(362)
          [] OTHER -> 0)
    [] state = 85 ->
       (CASE symbol = sym_comment -> ACTIONS_(3)
          [] symbol = anon_sym_desc -> ACTIONS_(370)
          [] symbol \in {anon_sym_RBRACE, anon_sym_name, anon_sym_description, anon_sym_state, anon_sym_movement, 
                anon_sym_dialogue, anon_sym_location} -> ACTIONS_(368)
          [] OTHER -> 0)
    [] state = 86 ->
       (CASE symbol = sym_comment -> ACTIONS_(3)
          [] symbol \in {ts_builtin_sym_end, anon_sym_let, anon_sym_trigger, anon_sym_room, anon_sym_item, 
                anon_sym_spinner, anon_sym_npc, anon_sym_goal} -> ACTIONS_(474)
          [] OTHER -> 0)
    [] state = 87 ->
       (CASE symbol = sym_comment -> ACTIONS_(3)
          [] symbol \in {ts_builtin_sym_end, anon_sym_let, anon_sym_trigger, anon_sym_room, anon_sym_item, 
                anon_sym_spinner, anon_sym_npc, anon_sym_goal} -> ACTIONS_(476)
          [] OTHER -> 0)
    [] state = 88 ->
       (CASE symbol = sym_comment -> ACTIONS_(3)
          [] symbol \in {ts_builtin_sym_end, anon_sym_let, anon_sym_trigger, anon_sym_room, anon_sym_item, 
                anon_sym_spinner, anon_sym_npc, anon_sym_goal} -> ACTIONS_(478)
          [] OTHER -> 0)
    [] state = 89 ->
       (CASE symbol = sym_comment -> ACTIONS_(3)
          [] symbol \in {ts_builtin_sym_end, anon_sym_let, anon_sym_trigger, anon_sym_room, anon_sym_item, 
                anon_sym_spinner, anon_sym_npc, anon_sym_goal} -> ACTIONS_(480)
          [] OTHER -> 0)
    [] state = 90 ->
       (CASE symbol = sym_comment -> ACTIONS_(3)
          [] symbol = anon_sym_desc -> ACTIONS_(484)
          [] symbol \in {anon_sym_RBRACE, anon_sym_name, anon_sym_description, anon_sym_state, anon_sym_movement, 
                anon_sym_dialogue, anon_sym_location} -> ACTIONS_(482)
          [] OTHER -> 0)
    [] state = 91 ->
       (CASE symbol = sym_comment -> ACTIONS_(3)
          [] symbol \in {ts_builtin_sym_end, anon_sym_let, anon_sym_trigger, anon_sym_room, anon_sym_item, 
                anon_sym_spinner, anon_sym_npc, anon_sym_goal} -> ACTIONS_(486)
          [] OTHER -> 0)
    [] state = 92 ->
       (CASE symbol = sym_comment -> ACTIONS_(3)
          [] symbol = anon_sym_desc -> ACTIONS_(490)
          [] symbol \in {anon_sym_RBRACE, anon_sym_name, anon_sym_description, anon_sym_state, anon_sym_movement, 
                anon_sym_dialogue, anon_sym_location} -> ACTIONS_(488)
          [] OTHER -> 0)
    [] state = 93 ->
       (CASE symbol = sym_comment -> ACTIONS_(3)
          [] symbol \in {ts_builtin_sym_end, anon_sym_let, anon_sym_trigger, anon_sym_room, anon_sym_item, 
                anon_sym_spinner, anon_sym_npc, anon_sym_goal} -> ACTIONS_(492)
          [] OTHER -> 0)
    [] state = 94 ->
       (CASE symbol = sym_comment -> ACTIONS_(3)
          [] symbol \in {ts_builtin_sym_end, anon_sym_let, anon_sym_trigger, anon_sym_room, anon_sym_item, 
                anon_sym_spinner, anon_sym_npc, anon_sym_goal} -> ACTIONS_(494)
          [] OTHER -> 0)
    [] state = 95 ->
       (CASE symbol = sym_comment -> ACTIONS_(3)
          [] symbol \in {ts_builtin_sym_end, anon_sym_let, anon_sym_trigger, anon_sym_room, anon_sym_item, 
                anon_sym_spinner, anon_sym_npc, anon_sym_goal} -> ACTIONS_(496)
          [] OTHER -> 0)
    [] state = 96 ->
       (CASE symbol = sym_comment -> ACTIONS_(3)
          [] symbol = anon_sym_RBRACE -> ACTIONS_(498)
          [] symbol = anon_sym_if -> ACTIONS_(500)
          [] symbol = anon_sym_do -> ACTIONS_(502)
          [] symbol \in {sym_trigger_stmt, aux_sym_trigger_block_repeat1} -> STATE_(111)
          [] symbol \in {sym_if_block, sym_do_stmt} -> STATE_(153)
          [] OTHER -> 0)
    [] state = 97 ->
       (CASE symbol = sym_comment -> ACTIONS_(3)
          [] symbol = anon_sym_desc -> ACTIONS_(506)
          [] symbol \in {anon_sym_RBRACE, anon_sym_name, anon_sym_description, anon_sym_visited, anon_sym_overlay, 
                anon_sym_exit} -> ACTIONS_(504)
          [] OTHER -> 0)
    [] state = 98 ->
       (CASE symbol = sym_comment -> ACTIONS_(3)
          [] symbol = anon_sym_desc -> ACTIONS_(510)
          [] symbol \in {anon_sym_RBRACE, anon_sym_name, anon_sym_description, anon_sym_visited, anon_sym_overlay, 
                anon_sym_exit} -> ACTIONS_(508)
          [] OTHER -> 0)
    [] state = 99 -> ts_small_parse_table_99(symbol)
    [] state = 100 ->
       (CASE symbol = sym_comment -> ACTIONS_(3)
          [] symbol = anon_sym_desc -> ACTIONS_(516)
          [] symbol \in {anon_sym_RBRACE, anon_sym_name, anon_sym_description, anon_sym_visited, anon_sym_overlay, 
                anon_sym_exit} -> ACTIONS_(514)
          [] OTHER -> 0)
    [] state = 101 ->
       (CASE symbol = sym_comment -> ACTIONS_(3)
          [] symbol = anon_sym_desc -> ACTIONS_(520)
          [] symbol \in {anon_sym_RBRACE, anon_sym_name, anon_sym_description, anon_sym_visited, anon_sym_overlay, 
                anon_sym_exit} -> ACTIONS_(518)
          [] OTHER -> 0)
    [] state = 102 ->
       (CASE symbol = sym_comment -> ACTIONS_(3)
          [] symbol = anon_sym_desc -> ACTIONS_(524)
          [] symbol \in {anon_sym_RBRACE, anon_sym_name, anon_sym_description, anon_sym_visited, anon_sym_overlay, 
                anon_sym_exit} -> ACTIONS_(522)
          [] OTHER -> 0)
    [] state = 103 ->
       (CASE symbol = sym_comment -> ACTIONS_(3)
          [] symbol = anon_sym_RBRACE -> ACTIONS_(526)
          [] symbol = anon_sym_if -> ACTIONS_(528)
          [] symbol = anon_sym_do -> ACTIONS_(531)
          [] symbol \in {sym_trigger_stmt, aux_sym_trigger_block_repeat1} -> STATE_(103)
          [] symbol \in {sym_if_block, sym_do_stmt} -> STATE_(153)
          [] OTHER -> 0)
    [] state = 104 ->
       (CASE symbol = sym_comment -> ACTIONS_(3)
          [] symbol = anon_sym_desc -> ACTIONS_(536)
          [] symbol \in {anon_sym_RBRACE, anon_sym_name, anon_sym_description, anon_sym_visited, anon_sym_overlay, 
                anon_sym_exit} -> ACTIONS_(534)
          [] OTHER -> 0)
    [] state = 105 ->
       (CASE symbol = sym_comment -> ACTIONS_(3)
          [] symbol = anon_sym_desc -> ACTIONS_(540)
          [] symbol \in {anon_sym_RBRACE, anon_sym_name, anon_sym_description, anon_sym_visited, anon_sym_overlay, 
                anon_sym_exit} -> ACTIONS_(538)
          [] OTHER -> 0)
    [] state = 106 ->
       (CASE symbol = sym_comment -> ACTIONS_(3)
          [] symbol = anon_sym_desc -> ACTIONS_(544)
          [] symbol \in {anon_sym_RBRACE, anon_sym_name, anon_sym_description, anon_sym_visited, anon_sym_overlay, 
                anon_sym_exit} -> ACTIONS_(542)
          [] OTHER -> 0)
    [] state = 107 -> ts_small_parse_table_107(symbol)
    [] state = 108 ->
       (CASE symbol = sym_comment -> ACTIONS_(3)
          [] symbol = anon_sym_desc -> ACTIONS_(550)
          [] symbol \in {anon_sym_RBRACE, anon_sym_name, anon_sym_description, anon_sym_visited, anon_sym_overlay, 
                anon_sym_exit} -> ACTIONS_(548)
          [] OTHER -> 0)
    [] state = 109 ->
       (CASE symbol = sym_comment -> ACTIONS_(3)
          [] symbol = anon_sym_if -> ACTIONS_(500)
          [] symbol = anon_sym_do -> ACTIONS_(502)
          [] symbol = anon_sym_RBRACE -> ACTIONS_(552)
          [] symbol \in {sym_trigger_stmt, aux_sym_trigger_block_repeat1} -> STATE_(103)
          [] symbol \in {sym_if_block, sym_do_stmt} -> STATE_(153)
          [] OTHER -> 0)
    [] state = 110 ->
       (CASE symbol = sym_comment -> ACTIONS_(3)
          [] symbol \in {anon_sym_set, anon_sym_RBRACE, anon_sym_unset, anon_sym_text, anon_sym_normal, 
                anon_sym_happy, anon_sym_bored} -> ACTIONS_(554)
          [] OTHER -> 0)
    [] state = 111 ->
       (CASE symbol = sym_comment -> ACTIONS_(3)
          [] symbol = anon_sym_if -> ACTIONS_(500)
          [] symbol = anon_sym_do -> ACTIONS_(502)
          [] symbol = anon_sym_RBRACE -> ACTIONS_(556)
          [] symbol \in {sym_trigger_stmt, aux_sym_trigger_block_repeat1} -> STATE_(103)
          [] symbol \in {sym_if_block, sym_do_stmt} -> STATE_(153)
          [] OTHER -> 0)
    [] state = 112 ->
       (CASE symbol = sym_comment -> ACTIONS_(3)
          [] symbol = anon_sym_desc -> ACTIONS_(560)
          [] symbol \in {anon_sym_RBRACE, anon_sym_name, anon_sym_description, anon_sym_visited, anon_sym_overlay, 
                anon_sym_exit} -> ACTIONS_(558)
          [] OTHER -> 0)
    [] state = 113 ->
       (CASE symbol = sym_comment -> ACTIONS_(3)
          [] symbol = sym_identifier -> ACTIONS_(562)
          [] symbol = sym_string -> STATE_(119)
          [] symbol \in {aux_sym_string_token1, aux_sym_string_token2} -> ACTIONS_(406)
          [] symbol \in {aux_sym_string_token3, aux_sym_string_token4, aux_sym_string_token5} -> ACTIONS_(408)
          [] OTHER -> 0)
    [] state = 114 ->
       (CASE symbol = sym_comment -> ACTIONS_(3)
          [] symbol = sym_string -> STATE_(43)
          [] symbol \in {aux_sym_string_token1, aux_sym_string_token2} -> ACTIONS_(564)
          [] symbol \in {aux_sym_string_token3, aux_sym_string_token4, aux_sym_string_token5} -> ACTIONS_(566)
          [] OTHER -> 0)
    [] state = 115 ->
       (CASE symbol = sym_comment -> ACTIONS_(3)
          [] symbol = sym_string -> STATE_(149)
          [] symbol \in {aux_sym_string_token1, aux_sym_string_token2} -> ACTIONS_(406)
          [] symbol \in {aux_sym_string_token3, aux_sym_string_token4, aux_sym_string_token5} -> ACTIONS_(408)
          [] OTHER -> 0)
    [] state = 116 ->
       (CASE symbol = sym_comment -> ACTIONS_(3)
          [] symbol = sym_string -> STATE_(30)
          [] symbol \in {aux_sym_string_token1, aux_sym_string_token2} -> ACTIONS_(406)
          [] symbol \in {aux_sym_string_token3, aux_sym_string_token4, aux_sym_string_token5} -> ACTIONS_(408)
          [] OTHER -> 0)
    [] state = 117 ->
       (CASE symbol = sym_comment -> ACTIONS_(3)
          [] symbol = sym_string -> STATE_(64)
          [] symbol \in {aux_sym_string_token1, aux_sym_string_token2} -> ACTIONS_(564)
          [] symbol \in {aux_sym_string_token3, aux_sym_string_token4, aux_sym_string_token5} -> ACTIONS_(566)
          [] OTHER -> 0)
    [] state = 118 ->
       (CASE symbol = sym_comment -> ACTIONS_(3)
          [] symbol = sym_string -> STATE_(70)
          [] symbol \in {aux_sym_string_token1, aux_sym_string_token2} -> ACTIONS_(564)
          [] symbol \in {aux_sym_string_token3, aux_sym_string_token4, aux_sym_string_token5} -> ACTIONS_(566)
          [] OTHER -> 0)
    [] state = 119 ->
       (CASE symbol = sym_comment -> ACTIONS_(3)
          [] symbol = anon_sym_only -> ACTIONS_(568)
          [] symbol = anon_sym_when -> ACTIONS_(570)
          [] symbol = anon_sym_LBRACE -> ACTIONS_(572)
          [] symbol = sym_trigger_block -> STATE_(91)
          [] symbol \in {sym_trigger_mod, aux_sym_trigger_repeat1} -> STATE_(129)
          [] OTHER -> 0)
    [] state = 120 ->
       (CASE symbol = sym_comment -> ACTIONS_(3)
          [] symbol = sym_string -> STATE_(135)
          [] symbol \in {aux_sym_string_token1, aux_sym_string_token2} -> ACTIONS_(406)
          [] symbol \in {aux_sym_string_token3, aux_sym_string_token4, aux_sym_string_token5} -> ACTIONS_(408)
          [] OTHER -> 0)
    [] state = 121 -> ts_small_parse_table_121(symbol)
    [] state = 122 ->
       (CASE symbol = sym_comment -> ACTIONS_(3)
          [] symbol = sym_string -> STATE_(20)
          [] symbol \in {aux_sym_string_token1, aux_sym_string_token2} -> ACTIONS_(564)
          [] symbol \in {aux_sym_string_token3, aux_sym_string_token4, aux_sym_string_token5} -> ACTIONS_(566)
          [] OTHER -> 0)
    [] state = 123 -> ts_small_parse_table_123(symbol)
    [] state = 124 ->
       (CASE symbol = sym_comment -> ACTIONS_(3)
          [] symbol = anon_sym_goal -> ACTIONS_(574)
          [] symbol = anon_sym_has -> ACTIONS_(576)
          [] symbol = anon_sym_flag -> ACTIONS_(578)
          [] symbol = anon_sym_missing -> ACTIONS_(580)
          [] symbol = anon_sym_reached -> ACTIONS_(582)
          [] symbol = sym_goal_cond -> STATE_(27)
          [] OTHER -> 0)
    [] state = 125 ->
       (CASE symbol = sym_comment -> ACTIONS_(3)
          [] symbol = anon_sym_goal -> ACTIONS_(574)
          [] symbol = anon_sym_has -> ACTIONS_(576)
          [] symbol = anon_sym_flag -> ACTIONS_(578)
          [] symbol = anon_sym_missing -> ACTIONS_(580)
          [] symbol = anon_sym_reached -> ACTIONS_(582)
          [] symbol = sym_goal_cond -> STATE_(29)
          [] OTHER -> 0)
    [] state = 126 ->
       (CASE symbol = sym_comment -> ACTIONS_(3)
          [] symbol = sym_string -> STATE_(98)
          [] symbol \in {aux_sym_string_token1, aux_sym_string_token2} -> ACTIONS_(564)
          [] symbol \in {aux_sym_string_token3, aux_sym_string_token4, aux_sym_string_token5} -> ACTIONS_(566)
          [] OTHER -> 0)
    [] state = 127 ->
       (CASE symbol = sym_comment -> ACTIONS_(3)
          [] symbol = sym_string -> STATE_(45)
          [] symbol \in {aux_sym_string_token1, aux_sym_string_token2} -> ACTIONS_(564)
          [] symbol \in {aux_sym_string_token3, aux_sym_string_token4, aux_sym_string_token5} -> ACTIONS_(566)
          [] OTHER -> 0)
    [] state = 128 ->
       (CASE symbol = sym_comment -> ACTIONS_(3)
          [] symbol = sym_string -> STATE_(42)
          [] symbol \in {aux_sym_string_token1, aux_sym_string_token2} -> ACTIONS_(564)
          [] symbol \in {aux_sym_string_token3, aux_sym_string_token4, aux_sym_string_token5} -> ACTIONS_(566)
          [] OTHER -> 0)
    [] state = 129 ->
       (CASE symbol = sym_comment -> ACTIONS_(3)
          [] symbol = anon_sym_only -> ACTIONS_(568)
          [] symbol = anon_sym_when -> ACTIONS_(570)
          [] symbol = anon_sym_LBRACE -> ACTIONS_(572)
          [] symbol = sym_trigger_block -> STATE_(76)
          [] symbol \in {sym_trigger_mod, aux_sym_trigger_repeat1} -> STATE_(134)
          [] OTHER -> 0)
    [] state = 130 ->
       (CASE symbol = sym_comment -> ACTIONS_(3)
          [] symbol = sym_string -> STATE_(110)
          [] symbol \in {aux_sym_string_token1, aux_sym_string_token2} -> ACTIONS_(406)
          [] symbol \in {aux_sym_string_token3, aux_sym_string_token4, aux_sym_string_token5} -> ACTIONS_(408)
          [] OTHER -> 0)
    [] state = 131 ->
       (CASE symbol = sym_comment -> ACTIONS_(3)
          [] symbol \in {anon_sym_COMMA, anon_sym_RBRACE, anon_sym_required_flags, anon_sym_required_items, 
                anon_sym_barred} -> ACTIONS_(584)
          [] OTHER -> 0)
    [] state = 132 ->
       (CASE symbol = sym_comment -> ACTIONS_(3)
          [] symbol = anon_sym_inventory -> ACTIONS_(588)
          [] symbol = anon_sym_nowhere -> ACTIONS_(590)
          [] symbol \in {anon_sym_room, anon_sym_npc, anon_sym_chest} -> ACTIONS_(586)
          [] OTHER -> 0)
    [] state = 133 ->
       (CASE symbol = sym_comment -> ACTIONS_(3)
          [] symbol \in {anon_sym_COMMA, anon_sym_RBRACE, anon_sym_required_flags, anon_sym_required_items, 
                anon_sym_barred} -> ACTIONS_(592)
          [] OTHER -> 0)
    [] state = 134 ->
       (CASE symbol = sym_comment -> ACTIONS_(3)
          [] symbol = anon_sym_only -> ACTIONS_(594)
          [] symbol = anon_sym_when -> ACTIONS_(597)
          [] symbol = anon_sym_LBRACE -> ACTIONS_(600)
          [] symbol \in {sym_trigger_mod, aux_sym_trigger_repeat1} -> STATE_(134)
          [] OTHER -> 0)
    [] state = 135 ->
       (CASE symbol = sym_comment -> ACTIONS_(3)
          [] symbol \in {anon_sym_COMMA, anon_sym_RBRACE, anon_sym_required_flags, anon_sym_required_items, 
                anon_sym_barred} -> ACTIONS_(602)
          [] OTHER -> 0)
    [] state = 136 ->
       (CASE symbol = sym_comment -> ACTIONS_(3)
          [] symbol \in {anon_sym_COMMA, anon_sym_RBRACE, anon_sym_required_flags, anon_sym_required_items, 
                anon_sym_barred} -> ACTIONS_(604)
          [] OTHER -> 0)
    [] state = 137 ->
       (CASE symbol = sym_comment -> ACTIONS_(3)
          [] symbol \in {anon_sym_COMMA, anon_sym_RBRACE, anon_sym_required_flags, anon_sym_required_items, 
                anon_sym_barred} -> ACTIONS_(606)
          [] OTHER -> 0)
    [] state = 138 ->
       (CASE symbol = sym_comment -> ACTIONS_(3)
          [] symbol = anon_sym_custom -> ACTIONS_(610)
          [] symbol \in {anon_sym_normal, anon_sym_happy, anon_sym_bored, anon_sym_mad} -> ACTIONS_(608)
          [] OTHER -> 0)
    [] state = 139 ->
       (CASE symbol = sym_comment -> ACTIONS_(3)
          [] symbol = anon_sym_custom -> ACTIONS_(614)
          [] symbol \in {anon_sym_normal, anon_sym_happy, anon_sym_bored, anon_sym_mad} -> ACTIONS_(612)
          [] OTHER -> 0)
    [] state = 140 -> ts_small_parse_table_140(symbol)
    [] state = 141 -> ts_small_parse_table_141(symbol)
    [] state = 142 ->
       (CASE symbol = sym_comment -> ACTIONS_(3)
          [] symbol = anon_sym_RBRACE -> ACTIONS_(624)
          [] symbol = anon_sym_wedge -> ACTIONS_(626)
          [] symbol \in {sym_wedge_stmt, aux_sym_spinner_block_repeat1} -> STATE_(142)
          [] OTHER -> 0)
    [] state = 143 ->
       (CASE symbol = sym_comment -> ACTIONS_(3)
          [] symbol = anon_sym_wedge -> ACTIONS_(622)
          [] symbol = anon_sym_RBRACE -> ACTIONS_(629)
          [] symbol \in {sym_wedge_stmt, aux_sym_spinner_block_repeat1} -> STATE_(142)
          [] OTHER -> 0)
    [] state = 144 ->
       (CASE symbol = sym_comment -> ACTIONS_(3)
          [] symbol \in {anon_sym_RBRACE, anon_sym_required_flags, anon_sym_required_items, anon_sym_barred} -> ACTIONS_(631)
          [] OTHER -> 0)
    [] state = 145 ->
       (CASE symbol = sym_comment -> ACTIONS_(3)
          [] symbol \in {anon_sym_RBRACE, anon_sym_if, anon_sym_do} -> ACTIONS_(633)
          [] OTHER -> 0)
    [] state = 146 ->
       (CASE symbol = sym_comment -> ACTIONS_(3)
          [] symbol = sym_boolean -> STATE_(41)
          [] symbol \in {anon_sym_true, anon_sym_false} -> ACTIONS_(635)
          [] OTHER -> 0)
    [] state = 147 ->
       (CASE symbol = sym_comment -> ACTIONS_(3)
          [] symbol \in {anon_sym_required, anon_sym_optional, anon_sym_status_DASHeffect} -> ACTIONS_(637)
          [] OTHER -> 0)
    [] state = 148 ->
       (CASE symbol = sym_comment -> ACTIONS_(3)
          [] symbol = sym_boolean -> STATE_(79)
          [] symbol \in {anon_sym_true, anon_sym_false} -> ACTIONS_(635)
          [] OTHER -> 0)
    [] state = 149 ->
       (CASE symbol = sym_comment -> ACTIONS_(3)
          [] symbol = anon_sym_width -> ACTIONS_(641)
          [] symbol \in {anon_sym_RBRACE, anon_sym_wedge} -> ACTIONS_(639)
          [] OTHER -> 0)
    [] state = 150 ->
       (CASE symbol = sym_comment -> ACTIONS_(3)
          [] symbol = anon_sym_COMMA -> ACTIONS_(643)
          [] symbol = anon_sym_RPAREN -> ACTIONS_(645)
          [] symbol = aux_sym_set_list_repeat1 -> STATE_(165)
          [] OTHER -> 0)
    [] state = 151 ->
       (CASE symbol = sym_comment -> ACTIONS_(3)
          [] symbol \in {anon_sym_RBRACE, anon_sym_if, anon_sym_do} -> ACTIONS_(647)
          [] OTHER -> 0)
    [] state = 152 ->
       (CASE symbol = sym_comment -> ACTIONS_(3)
          [] symbol \in {anon_sym_only, anon_sym_when, anon_sym_LBRACE} -> ACTIONS_(649)
          [] OTHER -> 0)
    [] state = 153 ->
       (CASE symbol = sym_comment -> ACTIONS_(3)
          [] symbol \in {anon_sym_RBRACE, anon_sym_if, anon_sym_do} -> ACTIONS_(651)
          [] OTHER -> 0)
    [] state = 154 ->
       (CASE symbol = sym_comment -> ACTIONS_(3)
          [] symbol = sym_boolean -> STATE_(81)
          [] symbol \in {anon_sym_true, anon_sym_false} -> ACTIONS_(635)
          [] OTHER -> 0)
    [] state = 155 ->
       (CASE symbol = sym_comment -> ACTIONS_(3)
          [] symbol = anon_sym_COMMA -> ACTIONS_(643)
          [] symbol = anon_sym_RPAREN -> ACTIONS_(653)
          [] symbol = aux_sym_set_list_repeat1 -> STATE_(167)
          [] OTHER -> 0)
    [] state = 156 ->
       (CASE symbol = sym_comment -> ACTIONS_(3)
          [] symbol = anon_sym_COMMA -> ACTIONS_(643)
          [] symbol = anon_sym_RPAREN -> ACTIONS_(655)
          [] symbol = aux_sym_set_list_repeat1 -> STATE_(165)
          [] OTHER -> 0)
    [] state = 157 ->
       (CASE symbol = sym_comment -> ACTIONS_(3)
          [] symbol = anon_sym_COMMA -> ACTIONS_(643)
          [] symbol = anon_sym_RPAREN -> ACTIONS_(657)
          [] symbol = aux_sym_set_list_repeat1 -> STATE_(156)
          [] OTHER -> 0)
    [] state = 158 ->
       (CASE symbol = sym_comment -> ACTIONS_(3)
          [] symbol = anon_sym_COMMA -> ACTIONS_(643)
          [] symbol = anon_sym_RPAREN -> ACTIONS_(659)
          [] symbol = aux_sym_set_list_repeat1 -> STATE_(150)
          [] OTHER -> 0)
    [] state = 159 ->
       (CASE symbol = sym_comment -> ACTIONS_(3)
          [] symbol = sym_boolean -> STATE_(97)
          [] symbol \in {anon_sym_true, anon_sym_false} -> ACTIONS_(635)
          [] OTHER -> 0)
    [] state = 160 ->
       (CASE symbol = sym_comment -> ACTIONS_(3)
          [] symbol = sym_boolean -> STATE_(84)
          [] symbol \in {anon_sym_true, anon_sym_false} -> ACTIONS_(635)
          [] OTHER -> 0)
    [] state = 161 ->
       (CASE symbol = sym_comment -> ACTIONS_(3)
          [] symbol = anon_sym_COMMA -> ACTIONS_(643)
          [] symbol = anon_sym_RPAREN -> ACTIONS_(661)
          [] symbol = aux_sym_set_list_repeat1 -> STATE_(162)
          [] OTHER -> 0)
    [] state = 162 ->
       (CASE symbol = sym_comment -> ACTIONS_(3)
          [] symbol = anon_sym_COMMA -> ACTIONS_(643)
          [] symbol = anon_sym_RPAREN -> ACTIONS_(663)
          [] symbol = aux_sym_set_list_repeat1 -> STATE_(165)
          [] OTHER -> 0)
    [] state = 163 ->
       (CASE symbol = sym_comment -> ACTIONS_(3)
          [] symbol \in {anon_sym_RBRACE, anon_sym_if, anon_sym_do} -> ACTIONS_(665)
          [] OTHER -> 0)
    [] state = 164 ->
       (CASE symbol = sym_comment -> ACTIONS_(3)
          [] symbol = sym_boolean -> STATE_(85)
          [] symbol \in {anon_sym_true, anon_sym_false} -> ACTIONS_(635)
          [] OTHER -> 0)
    [] state = 165 ->
       (CASE symbol = sym_comment -> ACTIONS_(3)
          [] symbol = anon_sym_COMMA -> ACTIONS_(667)
          [] symbol = anon_sym_RPAREN -> ACTIONS_(670)
          [] symbol = aux_sym_set_list_repeat1 -> STATE_(165)
          [] OTHER -> 0)
    [] state = 166 ->
       (CASE symbol = sym_comment -> ACTIONS_(3)
          [] symbol \in {anon_sym_RBRACE, anon_sym_if, anon_sym_do} -> ACTIONS_(672)
          [] OTHER -> 0)
    [] state = 167 ->
       (CASE symbol = sym_comment -> ACTIONS_(3)
          [] symbol = anon_sym_COMMA -> ACTIONS_(643)
          [] symbol = anon_sym_RPAREN -> ACTIONS_(674)
          [] symbol = aux_sym_set_list_repeat1 -> STATE_(165)
          [] OTHER -> 0)
    [] state = 168 ->
       (CASE symbol = sym_comment -> ACTIONS_(3)
          [] symbol = sym_boolean -> STATE_(37)
          [] symbol \in {anon_sym_true, anon_sym_false} -> ACTIONS_(635)
          [] OTHER -> 0)
    [] state = 169 ->
       (CASE symbol = sym_comment -> ACTIONS_(3)
          [] symbol = anon_sym_LBRACE -> ACTIONS_(676)
          [] symbol = sym_overlay_block -> STATE_(112)
          [] OTHER -> 0)
    [] state = 170 ->
       (CASE symbol = sym_comment -> ACTIONS_(3)
          [] symbol \in {anon_sym_COMMA, anon_sym_RPAREN} -> ACTIONS_(670)
          [] OTHER -> 0)
    [] state = 171 ->
       (CASE symbol = sym_comment -> ACTIONS_(3)
          [] symbol = anon_sym_LBRACE -> ACTIONS_(192)
          [] symbol = sym_braced_block -> STATE_(163)
          [] OTHER -> 0)
    [] state = 172 ->
       (CASE symbol = sym_comment -> ACTIONS_(3)
          [] symbol \in {anon_sym_open, anon_sym_closed} -> ACTIONS_(678)
          [] OTHER -> 0)
    [] state = 173 ->
       (CASE symbol = sym_comment -> ACTIONS_(3)
          [] symbol = anon_sym_LBRACE -> ACTIONS_(680)
          [] symbol = sym_item_block -> STATE_(94)
          [] OTHER -> 0)
    [] state = 174 ->
       (CASE symbol = sym_comment -> ACTIONS_(3)
          [] symbol = anon_sym_LBRACE -> ACTIONS_(682)
          [] symbol = sym_spinner_block -> STATE_(61)
          [] OTHER -> 0)
    [] state = 175 ->
       (CASE symbol = sym_comment -> ACTIONS_(3)
          [] symbol \in {anon_sym_RBRACE, anon_sym_wedge} -> ACTIONS_(684)
          [] OTHER -> 0)
    [] state = 176 ->
       (CASE symbol = sym_comment -> ACTIONS_(3)
          [] symbol = anon_sym_LBRACE -> ACTIONS_(686)
          [] symbol = sym_npc_block -> STATE_(86)
          [] OTHER -> 0)
    [] state = 177 ->
       (CASE symbol = sym_comment -> ACTIONS_(3)
          [] symbol \in {anon_sym_item, anon_sym_flag} -> ACTIONS_(688)
          [] OTHER -> 0)
    [] state = 178 ->
       (CASE symbol = sym_comment -> ACTIONS_(3)
          [] symbol \in {anon_sym_random, anon_sym_route} -> ACTIONS_(690)
          [] OTHER -> 0)
    [] state = 179 ->
       (CASE symbol = sym_comment -> ACTIONS_(3)
          [] symbol = anon_sym_complete -> ACTIONS_(688)
          [] symbol = anon_sym_in -> ACTIONS_(692)
          [] OTHER -> 0)
    [] state = 180 -> ts_small_parse_table_180(symbol)
    [] state = 181 ->
       (CASE symbol = sym_comment -> ACTIONS_(3)
          [] symbol = anon_sym_LPAREN -> ACTIONS_(696)
          [] symbol = sym_set_list -> STATE_(83)
          [] OTHER -> 0)
    [] state = 182 ->
       (CASE symbol = sym_comment -> ACTIONS_(3)
          [] symbol = anon_sym_state -> ACTIONS_(698)
          [] OTHER -> 0)
    [] state = 183 ->
       (CASE symbol = sym_comment -> ACTIONS_(3)
          [] symbol = anon_sym_LPAREN -> ACTIONS_(700)
          [] OTHER -> 0)
    [] state = 184 ->
       (CASE symbol = sym_comment -> ACTIONS_(3)
          [] symbol = anon_sym_if -> ACTIONS_(702)
          [] OTHER -> 0)
    [] state = 185 ->
       (CASE symbol = sym_comment -> ACTIONS_(3)
          [] symbol = sym_identifier -> ACTIONS_(704)
          [] OTHER -> 0)
    [] state = 186 ->
       (CASE symbol = sym_comment -> ACTIONS_(3)
          [] symbol = sym_identifier -> ACTIONS_(706)
          [] OTHER -> 0)
    [] state = 187 ->
       (CASE symbol = sym_comment -> ACTIONS_(3)
          [] symbol = anon_sym_LPAREN -> ACTIONS_(708)
          [] OTHER -> 0)
    [] state = 188 ->
       (CASE symbol = sym_comment -> ACTIONS_(3)
          [] symbol = sym_identifier -> ACTIONS_(710)
          [] OTHER -> 0)
    [] state = 189 ->
       (CASE symbol = sym_comment -> ACTIONS_(3)
          [] symbol = anon_sym_progress -> ACTIONS_(712)
          [] OTHER -> 0)
    [] state = 190 -> ts_small_parse_table_190(symbol)
    [] state = 191 ->
       (CASE symbol = sym_comment -> ACTIONS_(3)
          [] symbol = sym_identifier -> ACTIONS_(716)
          [] OTHER -> 0)
    [] state = 192 ->
       (CASE symbol = sym_comment -> ACTIONS_(3)
          [] symbol = sym_identifier -> ACTIONS_(718)
          [] OTHER -> 0)
    [] state = 193 ->
       (CASE symbol = sym_comment -> ACTIONS_(3)
          [] symbol = sym_identifier -> ACTIONS_(720)
          [] OTHER -> 0)
    [] state = 194 ->
       (CASE symbol = sym_comment -> ACTIONS_(3)
          [] symbol = sym_identifier -> ACTIONS_(722)
          [] OTHER -> 0)
    [] state = 195 ->
       (CASE symbol = sym_comment -> ACTIONS_(3)
          [] symbol = anon_sym_EQ -> ACTIONS_(724)
          [] OTHER -> 0)
    [] state = 196 -> ts_small_parse_table_196(symbol)
    [] state = 197 ->
       (CASE symbol = sym_comment -> ACTIONS_(3)
          [] symbol = sym_identifier -> ACTIONS_(728)
          [] OTHER -> 0)
    [] state = 198 ->
       (CASE symbol = sym_comment -> ACTIONS_(3)
          [] symbol = anon_sym_room -> ACTIONS_(688)
          [] OTHER -> 0)
    [] state = 199 -> ts_small_parse_table_199(symbol)
    [] state = 200 ->
       (CASE symbol = sym_comment -> ACTIONS_(3)
          [] symbol = anon_sym_complete -> ACTIONS_(688)
          [] OTHER -> 0)
    [] state = 201 ->
       (CASE symbol = sym_comment -> ACTIONS_(3)
          [] symbol = anon_sym_LBRACE -> ACTIONS_(730)
          [] OTHER -> 0)
    [] state = 202 ->
       (CASE symbol = sym_comment -> ACTIONS_(3)
          [] symbol = anon_sym_when -> ACTIONS_(732)
          [] OTHER -> 0)
    [] state = 203 ->
       (CASE symbol = sym_comment -> ACTIONS_(3)
          [] symbol = anon_sym_LPAREN -> ACTIONS_(734)
          [] OTHER -> 0)
    [] state = 204 ->
       (CASE symbol = sym_comment -> ACTIONS_(3)
          [] symbol = sym_identifier -> ACTIONS_(736)
          [] OTHER -> 0)
    [] state = 205 ->
       (CASE symbol = sym_comment -> ACTIONS_(3)
          [] symbol = anon_sym_when -> ACTIONS_(738)
          [] OTHER -> 0)
    [] state = 206 ->
       (CASE symbol = sym_comment -> ACTIONS_(3)
          [] symbol = sym_number -> ACTIONS_(740)
          [] OTHER -> 0)
    [] state = 207 -> ts_small_parse_table_207(symbol)
    [] state = 208 ->
       (CASE symbol = sym_comment -> ACTIONS_(3)
          [] symbol = sym_identifier -> ACTIONS_(744)
          [] OTHER -> 0)
    [] state = 209 ->
       (CASE symbol = sym_comment -> ACTIONS_(3)
          [] symbol = anon_sym_DASH_GT -> ACTIONS_(746)
          [] OTHER -> 0)
    [] state = 210 ->
       (CASE symbol = sym_comment -> ACTIONS_(3)
          [] symbol = sym_identifier -> ACTIONS_(748)
          [] OTHER -> 0)
    [] state = 211 ->
       (CASE symbol = sym_comment -> ACTIONS_(3)
          [] symbol = anon_sym_player -> ACTIONS_(750)
          [] OTHER -> 0)
    [] state = 212 -> ts_small_parse_table_212(symbol)
    [] state = 213 ->
       (CASE symbol = sym_comment -> ACTIONS_(3)
          [] symbol = sym_identifier -> ACTIONS_(754)
          [] OTHER -> 0)
    [] state = 214 ->
       (CASE symbol = sym_comment -> ACTIONS_(3)
          [] symbol = anon_sym_LBRACE -> ACTIONS_(756)
          [] OTHER -> 0)
    [] state = 215 ->
       (CASE symbol = sym_comment -> ACTIONS_(3)
          [] symbol = sym_identifier -> ACTIONS_(758)
          [] OTHER -> 0)
    [] state = 216 ->
       (CASE symbol = sym_comment -> ACTIONS_(3)
          [] symbol = anon_sym_rooms -> ACTIONS_(760)
          [] OTHER -> 0)
    [] state = 217 ->
       (CASE symbol = sym_comment -> ACTIONS_(3)
          [] symbol = ts_builtin_sym_end -> ACTIONS_(762)
          [] OTHER -> 0)
    [] state = 218 ->
       (CASE symbol = sym_comment -> ACTIONS_(3)
          [] symbol = sym_identifier -> ACTIONS_(764)
          [] OTHER -> 0)
    [] state = 219 -> ts_small_parse_table_219(symbol)
    [] state = 220 ->
       (CASE symbol = sym_comment -> ACTIONS_(3)
          [] symbol = sym_identifier -> ACTIONS_(768)
          [] OTHER -> 0)
    [] state = 221 ->
       (CASE symbol = sym_comment -> ACTIONS_(3)
          [] symbol = sym_identifier -> ACTIONS_(770)
          [] OTHER -> 0)
    [] state = 222 ->
       (CASE symbol = sym_comment -> ACTIONS_(3)
          [] symbol = sym_identifier -> ACTIONS_(772)
          [] OTHER -> 0)
    [] OTHER -> 0

LARGE_STATE_COUNT == 2
\* the table entry of a parse state for a symbol: an index into ts_parse_actions
\* for a token, the goto state for a non-terminal, 0 if there is none
ts_table_entry(state, symbol) ==
  IF state < LARGE_STATE_COUNT THEN ts_parse_table(state, symbol)
  ELSE ts_small_parse_table(state, symbol)

\* ---- source texts, as sequences of code points ----
def_npc_room ==  \* npc room { }
  << 110, 112, 99, 32, 114, 111, 111, 109, 32, 123, 32, 125 >>
def_room ==  \* room A { name "x" desc "y" }
  << 114, 111, 111, 109, 32, 65, 32, 123, 32, 110, 97, 109, 101, 32, 34, 120, 34, 32, 100, 101, 115, 99, 32, 34, 121, 34, 32, 125 >>
def_let_set ==  \* let set x = (1, 2, 3)
  << 108, 101, 116, 32, 115, 101, 116, 32, 120, 32, 61, 32, 40, 49, 44, 32, 50, 44, 32, 51, 41 >>
def_item ==  \* item A { }
  << 105, 116, 101, 109, 32, 65, 32, 123, 32, 125 >>
def_spinner ==  \* spinner A { }
  << 115, 112, 105, 110, 110, 101, 114, 32, 65, 32, 123, 32, 125 >>
def_goal ==  \* goal A "x"
  << 103, 111, 97, 108, 32, 65, 32, 34, 120, 34 >>
def_trigger ==  \* trigger "t" when x { }
  << 116, 114, 105, 103, 103, 101, 114, 32, 34, 116, 34, 32, 119, 104, 101, 110, 32, 120, 32, 123, 32, 125 >>
text_empty ==  \* 
  << >>
text_let_x ==  \* let x = (1, 2, 3)
  << 108, 101, 116, 32, 120, 32, 61, 32, 40, 49, 44, 32, 50, 44, 32, 51, 41 >>
text_room_error ==  \* room A { name "x" @@@ desc "y" }
  << 114, 111, 111, 109, 32, 65, 32, 123, 32, 110, 97, 109, 101, 32, 34, 120, 34, 32, 64, 64, 64, 32, 100, 101, 115, 99, 32, 34, 121, 34, 32, 125 >>
text_room_block_string ==  \* room A { desc """\nHello # not shown\nWorld\n""" }
  << 114, 111, 111, 109, 32, 65, 32, 123, 32, 100, 101, 115, 99, 32, 34, 34, 34, 10, 72, 101, 108, 108, 111, 32, 35, 32, 110, 111, 116, 32, 115, 104, 111, 119, 110, 10, 87, 111, 114, 108, 100, 10, 34, 34, 34, 32, 125 >>
text_roomA ==  \* roomA { }
  << 114, 111, 111, 109, 65, 32, 123, 32, 125 >>
text_open_string ==  \* room A { name "x
  << 114, 111, 111, 109, 32, 65, 32, 123, 32, 110, 97, 109, 101, 32, 34, 120 >>
text_open_braces ==  \* room A { { {
  << 114, 111, 111, 109, 32, 65, 32, 123, 32, 123, 32, 123 >>
text_garbage ==  \* @@@
  << 64, 64, 64 >>
text_identifier ==  \* foo
  << 102, 111, 111 >>
text_number ==  \* 1
  << 49 >>
text_string ==  \* "x"
  << 34, 120, 34 >>
text_comment ==  \* # c
  << 35, 32, 99 >>
text_npc_comment ==  \* npc A { # c\n}
  << 110, 112, 99, 32, 65, 32, 123, 32, 35, 32, 99, 10, 125 >>

text_room_three ==  \* room A { name "x" desc "y" name "z" }
  << 114, 111, 111, 109, 32, 65, 32, 123, 32, 110, 97, 109, 101, 32, 34, 120, 34, 32, 100, 101,
     115, 99, 32, 34, 121, 34, 32, 110, 97, 109, 101, 32, 34, 122, 34, 32, 125 >>
text_goal_braces ==  \* goal A { }
  << 103, 111, 97, 108, 32, 65, 32, 123, 32, 125 >>
text_goal_stmts ==  \* goal A "x" desc "d" group required done when has flag f
  << 103, 111, 97, 108, 32, 65, 32, 34, 120, 34, 32, 100, 101, 115, 99, 32, 34, 100, 34, 32,
     103, 114, 111, 117, 112, 32, 114, 101, 113, 117, 105, 114, 101, 100, 32, 100, 111, 110,
     101, 32, 119, 104, 101, 110, 32, 104, 97, 115, 32, 102, 108, 97, 103, 32, 102 >>
text_spinner_wedge ==  \* spinner A { wedge "a" }
  << 115, 112, 105, 110, 110, 101, 114, 32, 65, 32, 123, 32, 119, 101, 100, 103, 101, 32, 34,
     97, 34, 32, 125 >>
text_trigger_when ==  \* trigger when x { }
  << 116, 114, 105, 103, 103, 101, 114, 32, 119, 104, 101, 110, 32, 120, 32, 123, 32, 125 >>
text_trigger_only_once_when ==  \* trigger only once when x { }
  << 116, 114, 105, 103, 103, 101, 114, 32, 111, 110, 108, 121, 32, 111, 110, 99, 101, 32, 119,
     104, 101, 110, 32, 120, 32, 123, 32, 125 >>
text_trigger_only_when ==  \* trigger only when x { }
  << 116, 114, 105, 103, 103, 101, 114, 32, 111, 110, 108, 121, 32, 119, 104, 101, 110, 32, 120,
     32, 123, 32, 125 >>
text_trigger_once_when ==  \* trigger once when x { }
  << 116, 114, 105, 103, 103, 101, 114, 32, 111, 110, 99, 101, 32, 119, 104, 101, 110, 32, 120,
     32, 123, 32, 125 >>
text_trigger_mods ==  \* trigger "t" only once when x y { }
  << 116, 114, 105, 103, 103, 101, 114, 32, 34, 116, 34, 32, 111, 110, 108, 121, 32, 111, 110,
     99, 101, 32, 119, 104, 101, 110, 32, 120, 32, 121, 32, 123, 32, 125 >>
text_trigger_bare ==  \* trigger "t" { }
  << 116, 114, 105, 103, 103, 101, 114, 32, 34, 116, 34, 32, 123, 32, 125 >>
text_trigger_once ==  \* trigger "t" once when x { }
  << 116, 114, 105, 103, 103, 101, 114, 32, 34, 116, 34, 32, 111, 110, 99, 101, 32, 119, 104,
     101, 110, 32, 120, 32, 123, 32, 125 >>
text_trigger_only ==  \* trigger "t" only when x { }
  << 116, 114, 105, 103, 103, 101, 114, 32, 34, 116, 34, 32, 111, 110, 108, 121, 32, 119, 104,
     101, 110, 32, 120, 32, 123, 32, 125 >>
text_trigger_when_first ==  \* trigger "t" when x only once { }
  << 116, 114, 105, 103, 103, 101, 114, 32, 34, 116, 34, 32, 119, 104, 101, 110, 32, 120, 32,
     111, 110, 108, 121, 32, 111, 110, 99, 101, 32, 123, 32, 125 >>
text_trigger_stmts ==  \* trigger "t" { do x y if a { do z } }
  << 116, 114, 105, 103, 103, 101, 114, 32, 34, 116, 34, 32, 123, 32, 100, 111, 32, 120, 32,
     121, 32, 105, 102, 32, 97, 32, 123, 32, 100, 111, 32, 122, 32, 125, 32, 125 >>
text_trigger_bare_action ==  \* trigger "t" { x y }
  << 116, 114, 105, 103, 103, 101, 114, 32, 34, 116, 34, 32, 123, 32, 120, 32, 121, 32, 125 >>
text_trigger_two_whens ==  \* trigger "t" when x when y 2 { }
  << 116, 114, 105, 103, 103, 101, 114, 32, 34, 116, 34, 32, 119, 104, 101, 110, 32, 120, 32,
     119, 104, 101, 110, 32, 121, 32, 50, 32, 123, 32, 125 >>
text_spinner_width ==  \* spinner A { width 2 wedge "a" }
  << 115, 112, 105, 110, 110, 101, 114, 32, 65, 32, 123, 32, 119, 105, 100, 116, 104, 32, 50,
     32, 119, 101, 100, 103, 101, 32, 34, 97, 34, 32, 125 >>
text_spinner_wedge_width ==  \* spinner A { wedge "a" width 2 }
  << 115, 112, 105, 110, 110, 101, 114, 32, 65, 32, 123, 32, 119, 101, 100, 103, 101, 32, 34,
     97, 34, 32, 119, 105, 100, 116, 104, 32, 50, 32, 125 >>
text_goal_condition ==  \* goal A "x" condition has flag f
  << 103, 111, 97, 108, 32, 65, 32, 34, 120, 34, 32, 99, 111, 110, 100, 105, 116, 105, 111, 110,
     32, 104, 97, 115, 32, 102, 108, 97, 103, 32, 102 >>
text_item_description ==  \* item A { description "d" }
  << 105, 116, 101, 109, 32, 65, 32, 123, 32, 100, 101, 115, 99, 114, 105, 112, 116, 105, 111,
     110, 32, 34, 100, 34, 32, 125 >>
text_npc_description ==  \* npc A { desc "d" description "e" }
  << 110, 112, 99, 32, 65, 32, 123, 32, 100, 101, 115, 99, 32, 34, 100, 34, 32, 100, 101, 115,
     99, 114, 105, 112, 116, 105, 111, 110, 32, 34, 101, 34, 32, 125 >>
text_room_description ==  \* room A { description "d" }
  << 114, 111, 111, 109, 32, 65, 32, 123, 32, 100, 101, 115, 99, 114, 105, 112, 116, 105, 111,
     110, 32, 34, 100, 34, 32, 125 >>
text_goal_description ==  \* goal A "x" description "y"
  << 103, 111, 97, 108, 32, 65, 32, 34, 120, 34, 32, 100, 101, 115, 99, 114, 105, 112, 116, 105,
     111, 110, 32, 34, 121, 34 >>
text_exit_full ==  \* room A { exit n -> B { required_flags(a) required_items(b) barred "m" } }
  << 114, 111, 111, 109, 32, 65, 32, 123, 32, 101, 120, 105, 116, 32, 110, 32, 45, 62, 32, 66,
     32, 123, 32, 114, 101, 113, 117, 105, 114, 101, 100, 95, 102, 108, 97, 103, 115, 40, 97,
     41, 32, 114, 101, 113, 117, 105, 114, 101, 100, 95, 105, 116, 101, 109, 115, 40, 98, 41,
     32, 98, 97, 114, 114, 101, 100, 32, 34, 109, 34, 32, 125, 32, 125 >>
text_exit_plain ==  \* room A { exit "n" -> B }
  << 114, 111, 111, 109, 32, 65, 32, 123, 32, 101, 120, 105, 116, 32, 34, 110, 34, 32, 45, 62,
     32, 66, 32, 125 >>
text_exit_arrow ==  \* room A { exit -> B { barred "m" } }
  << 114, 111, 111, 109, 32, 65, 32, 123, 32, 101, 120, 105, 116, 32, 45, 62, 32, 66, 32, 123,
     32, 98, 97, 114, 114, 101, 100, 32, 34, 109, 34, 32, 125, 32, 125 >>
text_goal_cond_complete ==  \* goal A "x" done when goal complete B start when flag in progress f
  << 103, 111, 97, 108, 32, 65, 32, 34, 120, 34, 32, 100, 111, 110, 101, 32, 119, 104, 101, 110,
     32, 103, 111, 97, 108, 32, 99, 111, 109, 112, 108, 101, 116, 101, 32, 66, 32, 115, 116, 97,
     114, 116, 32, 119, 104, 101, 110, 32, 102, 108, 97, 103, 32, 105, 110, 32, 112, 114, 111,
     103, 114, 101, 115, 115, 32, 102 >>
text_goal_cond_item ==  \* goal A "x" done when has item i start when flag complete f
  << 103, 111, 97, 108, 32, 65, 32, 34, 120, 34, 32, 100, 111, 110, 101, 32, 119, 104, 101, 110,
     32, 104, 97, 115, 32, 105, 116, 101, 109, 32, 105, 32, 115, 116, 97, 114, 116, 32, 119,
     104, 101, 110, 32, 102, 108, 97, 103, 32, 99, 111, 109, 112, 108, 101, 116, 101, 32, 102 >>
text_goal_cond_room ==  \* goal A "x" start when reached room r done when missing flag f
  << 103, 111, 97, 108, 32, 65, 32, 34, 120, 34, 32, 115, 116, 97, 114, 116, 32, 119, 104, 101,
     110, 32, 114, 101, 97, 99, 104, 101, 100, 32, 114, 111, 111, 109, 32, 114, 32, 100, 111,
     110, 101, 32, 119, 104, 101, 110, 32, 109, 105, 115, 115, 105, 110, 103, 32, 102, 108, 97,
     103, 32, 102 >>
text_goal_cond_done ==  \* goal A "x" done when goal B done
  << 103, 111, 97, 108, 32, 65, 32, 34, 120, 34, 32, 100, 111, 110, 101, 32, 119, 104, 101, 110,
     32, 103, 111, 97, 108, 32, 66, 32, 100, 111, 110, 101 >>
text_goal_cond_missing_item ==  \* goal A "x" done when missing item i
  << 103, 111, 97, 108, 32, 65, 32, 34, 120, 34, 32, 100, 111, 110, 101, 32, 119, 104, 101, 110,
     32, 109, 105, 115, 115, 105, 110, 103, 32, 105, 116, 101, 109, 32, 105 >>
text_goal_cond_paren ==  \* goal A "x" done when (has flag f)
  << 103, 111, 97, 108, 32, 65, 32, 34, 120, 34, 32, 100, 111, 110, 101, 32, 119, 104, 101, 110,
     32, 40, 104, 97, 115, 32, 102, 108, 97, 103, 32, 102, 41 >>
text_goal_cond_comma ==  \* goal A "x" done when has flag f, has flag g
  << 103, 111, 97, 108, 32, 65, 32, 34, 120, 34, 32, 100, 111, 110, 101, 32, 119, 104, 101, 110,
     32, 104, 97, 115, 32, 102, 108, 97, 103, 32, 102, 44, 32, 104, 97, 115, 32, 102, 108, 97,
     103, 32, 103 >>
text_goal_cond_two ==  \* goal A "x" done when has flag f has flag g
  << 103, 111, 97, 108, 32, 65, 32, 34, 120, 34, 32, 100, 111, 110, 101, 32, 119, 104, 101, 110,
     32, 104, 97, 115, 32, 102, 108, 97, 103, 32, 102, 32, 104, 97, 115, 32, 102, 108, 97, 103,
     32, 103 >>
text_set_empty ==  \* let set x = ()
  << 108, 101, 116, 32, 115, 101, 116, 32, 120, 32, 61, 32, 40, 41 >>
text_set_trailing ==  \* let set x = (1,)
  << 108, 101, 116, 32, 115, 101, 116, 32, 120, 32, 61, 32, 40, 49, 44, 41 >>
text_set_two ==  \* let set y = (a, 2)
  << 108, 101, 116, 32, 115, 101, 116, 32, 121, 32, 61, 32, 40, 97, 44, 32, 50, 41 >>
text_room_name_word ==  \* room A { name x }
  << 114, 111, 111, 109, 32, 65, 32, 123, 32, 110, 97, 109, 101, 32, 120, 32, 125 >>
text_goal_title_word ==  \* goal A x
  << 103, 111, 97, 108, 32, 65, 32, 120 >>
text_room_close_close ==  \* room A } }
  << 114, 111, 111, 109, 32, 65, 32, 125, 32, 125 >>
text_do_number ==  \* trigger "t" { do x 2 }
  << 116, 114, 105, 103, 103, 101, 114, 32, 34, 116, 34, 32, 123, 32, 100, 111, 32, 120, 32, 50,
     32, 125 >>
text_do_lines ==  \* trigger "t" { do x\ndoor do y { } }
  << 116, 114, 105, 103, 103, 101, 114, 32, 34, 116, 34, 32, 123, 32, 100, 111, 32, 120, 10,
     100, 111, 111, 114, 32, 100, 111, 32, 121, 32, 123, 32, 125, 32, 125 >>
text_do_empty ==  \* trigger "t" { do }
  << 116, 114, 105, 103, 103, 101, 114, 32, 34, 116, 34, 32, 123, 32, 100, 111, 32, 125 >>
text_exit_commas ==  \* room A { exit n -> B { barred "m", barred "k" required_flags(a), } }
  << 114, 111, 111, 109, 32, 65, 32, 123, 32, 101, 120, 105, 116, 32, 110, 32, 45, 62, 32, 66,
     32, 123, 32, 98, 97, 114, 114, 101, 100, 32, 34, 109, 34, 44, 32, 98, 97, 114, 114, 101,
     100, 32, 34, 107, 34, 32, 114, 101, 113, 117, 105, 114, 101, 100, 95, 102, 108, 97, 103,
     115, 40, 97, 41, 44, 32, 125, 32, 125 >>
text_exit_comma_first ==  \* room A { exit n -> B { , barred "m" } }
  << 114, 111, 111, 109, 32, 65, 32, 123, 32, 101, 120, 105, 116, 32, 110, 32, 45, 62, 32, 66,
     32, 123, 32, 44, 32, 98, 97, 114, 114, 101, 100, 32, 34, 109, 34, 32, 125, 32, 125 >>
\* further source texts, each a whole definition
ClaimTexts ==
  { text_room_three, text_goal_braces, text_goal_stmts, text_spinner_wedge,
    text_trigger_when, text_trigger_only_once_when, text_trigger_only_when,
    text_trigger_once_when, text_trigger_mods, text_trigger_bare, text_trigger_once,
    text_trigger_only, text_trigger_when_first, text_trigger_stmts,
    text_trigger_bare_action, text_trigger_two_whens, text_spinner_width,
    text_spinner_wedge_width, text_goal_condition, text_item_description,
    text_npc_description, text_room_description, text_goal_description, text_exit_full,
    text_exit_plain, text_exit_arrow, text_goal_cond_complete, text_goal_cond_item,
    text_goal_cond_room, text_goal_cond_done, text_goal_cond_missing_item,
    text_goal_cond_paren, text_goal_cond_comma, text_goal_cond_two, text_set_empty,
    text_set_trailing, text_set_two, text_room_name_word, text_goal_title_word,
    text_room_close_close, text_do_number, text_do_lines, text_do_empty, text_exit_commas,
    text_exit_comma_first }

\* well-formed top-level definitions, one of each kind
Definitions == { def_npc_room, def_room, def_let_set, def_item, def_spinner, def_goal, def_trigger }
\* the spelling of every anonymous token of the grammar
TokenSpellings == { ts_symbol_names(symbol) : symbol \in anon_sym_true..anon_sym_progress }
\* the text that follows the leading definitions of a source
Tails == TokenSpellings \cup
  { text_empty,
    text_let_x,
    text_room_error,
    text_room_block_string,
    text_roomA,
    text_open_string,
    text_open_braces,
    text_garbage,
    text_identifier,
    text_number,
    text_string,
    text_comment,
    text_npc_comment } \cup ClaimTexts

\* number of well-formed definitions that lead a source text
MaxDefs == 1

Space == << 32 >>
\* the non-empty parts, separated by single spaces
RECURSIVE Join(_)
Join(parts) ==
  IF parts = << >> THEN << >>
  ELSE LET rest == Join(Tail(parts))
       IN  IF parts[1] = << >> THEN rest
           ELSE IF rest = << >> THEN parts[1]
           ELSE parts[1] \o Space \o rest

DefinitionLists == UNION { [1..n -> Definitions] : n \in 0..MaxDefs }
Sources == { Join(defs \o << tail >>) : defs \in DefinitionLists, tail \in Tails }

\* ---- parser state ----
VARIABLES
  input,            \* the source text read so far, as code points
  closed,           \* TRUE once the source has reported end of input
  nread,            \* number of characters read one at a time
  pc,               \* "lex" | "parse" | "accepted" | "error"
  stack,            \* parse stack: << [state, node], ... >>, bottom first
  lex_state,        \* current state of ts_lex
  position,         \* lexer position (count of characters before the lookahead)
  token_start,      \* start of the token being lexed (after skipped characters)
  token_end,        \* last mark_end position
  result_symbol,    \* symbol of the last ACCEPT_TOKEN, NoToken if none
  lookahead_token,  \* the token handed to the parser
  tokens,           \* every token handed to the parser, with the parse state it was lexed in
  suspended         \* the lexers of the other calls in progress, none in a single call

vars == << input, closed, nread, pc, stack, lex_state, position, token_start,
           token_end, result_symbol, lookahead_token, tokens, suspended >>

Leaf(symbol, from, to, is_extra) ==
  [symbol |-> symbol, start |-> from, end |-> to, extra |-> is_extra, children |-> << >>]
NoNode == Leaf(NoToken, 0, 0, FALSE)
NoLookahead == [symbol |-> NoToken, start |-> 0, end |-> 0]

TopState == stack[Len(stack)].state

\* lexer->lookahead and lexer->eof(lexer)
AtEof == position >= Len(input)
Lookahead == IF AtEof THEN 0 ELSE input[position + 1]
\* the lexer can look at the next character only once it has been read
Readable == position < Len(input) \/ closed

\* ts_lex_modes[state].lex_state
LexMode(state) == ts_lex_modes[state + 1]

\* a parse of a whole source text, starting in parse state 1
Init ==
  /\ input \in Sources
  /\ closed = TRUE
  /\ nread = 0
  /\ pc = "lex"
  /\ stack = << [state |-> 1, node |-> NoNode] >>
  /\ lex_state = LexMode(1)
  /\ position = 0
  /\ token_start = 0
  /\ token_end = 0
  /\ result_symbol = NoToken
  /\ lookahead_token = NoLookahead
  /\ tokens = << >>
  /\ suspended = << >>

\* ---- one step of ts_lex ----
LexStep == ts_lex(lex_state, Lookahead, AtEof)
\* ACCEPT_TOKEN: result = true, result_symbol = symbol, mark_end
Accepted == LexStep.accept # NoToken
NewResultSymbol == IF Accepted THEN LexStep.accept ELSE result_symbol
NewTokenEnd == IF Accepted THEN position ELSE token_end
\* lexer->advance does not move at end of input
NextPosition == IF AtEof THEN position ELSE position + 1

lex_advance ==
  /\ pc = "lex"
  /\ Readable
  /\ LexStep.op = "ADVANCE"
  /\ lex_state' = LexStep.state
  /\ position' = NextPosition
  /\ result_symbol' = NewResultSymbol
  /\ token_end' = NewTokenEnd
  /\ UNCHANGED << input, closed, nread, pc, stack, token_start, lookahead_token, tokens >>
  /\ UNCHANGED suspended

lex_skip ==
  /\ pc = "lex"
  /\ Readable
  /\ LexStep.op = "SKIP"
  /\ lex_state' = LexStep.state
  /\ position' = NextPosition
  /\ token_start' = NextPosition
  /\ result_symbol' = NewResultSymbol
  /\ token_end' = NewTokenEnd
  /\ UNCHANGED << input, closed, nread, pc, stack, lookahead_token, tokens >>
  /\ UNCHANGED suspended

\* END_STATE with result = true: the token [token_start, token_end) is handed to the parser
lex_return_token ==
  /\ pc = "lex"
  /\ Readable
  /\ LexStep.op = "END_STATE"
  /\ NewResultSymbol # NoToken
  /\ result_symbol' = NewResultSymbol
  /\ token_end' = NewTokenEnd
  /\ lookahead_token' = [symbol |-> NewResultSymbol, start |-> token_start, end |-> NewTokenEnd]
  /\ tokens' = Append(tokens, [symbol |-> NewResultSymbol, start |-> token_start,
                               end |-> NewTokenEnd, state |-> TopState])
  /\ pc' = "parse"
  /\ UNCHANGED << input, closed, nread, stack, lex_state, position, token_start >>
  /\ UNCHANGED suspended

\* END_STATE with result = false: ts_lex returns false in the lex mode of the parse state
lex_return_false ==
  /\ pc = "lex"
  /\ Readable
  /\ \/ LexStep.op = "END_STATE" /\ NewResultSymbol = NoToken
     \/ LexStep.op = "RETURN_FALSE"
  /\ pc' = "error"
  /\ UNCHANGED << input, closed, nread, stack, lex_state, position, token_start, token_end,
                  result_symbol, lookahead_token, tokens >>
  /\ UNCHANGED suspended

\* ---- the parser's use of the tables ----
\* The actions of a table entry that the parser acts on: a SHIFT_REPEAT only
\* marks the repetition of the REDUCE listed before it.
TableActions(state, symbol) ==
  SelectSeq(ts_parse_actions(ts_table_entry(state, symbol)),
            LAMBDA a : a.type # "SHIFT_REPEAT")
CurrentActions == TableActions(TopState, lookahead_token.symbol)

\* start lexing the next token at `from` in the lex mode of parse state `state`
StartLex(state, from) ==
  /\ pc' = "lex"
  /\ lex_state' = LexMode(state)
  /\ position' = from
  /\ token_start' = from
  /\ token_end' = from
  /\ result_symbol' = NoToken
  /\ lookahead_token' = NoLookahead

LookaheadLeaf(is_extra) ==
  Leaf(lookahead_token.symbol, lookahead_token.start, lookahead_token.end, is_extra)

\* SHIFT(state): push the token and go to the state
parse_shift ==
  /\ pc = "parse"
  /\ Len(CurrentActions) = 1
  /\ CurrentActions[1].type = "SHIFT"
  /\ stack' = Append(stack, [state |-> CurrentActions[1].state, node |-> LookaheadLeaf(FALSE)])
  /\ StartLex(CurrentActions[1].state, lookahead_token.end)
  /\ UNCHANGED << input, closed, nread, tokens >>
  /\ UNCHANGED suspended

\* SHIFT_EXTRA(): push the token as an extra, stay in the state
parse_shift_extra ==
  /\ pc = "parse"
  /\ Len(CurrentActions) = 1
  /\ CurrentActions[1].type = "SHIFT_EXTRA"
  /\ stack' = Append(stack, [state |-> TopState, node |-> LookaheadLeaf(TRUE)])
  /\ StartLex(TopState, lookahead_token.end)
  /\ UNCHANGED << input, closed, nread, tokens >>
  /\ UNCHANGED suspended

\* first index of the stack suffix that holds `count` non-extra entries
RECURSIVE PopFrom(_, _, _)
PopFrom(stk, i, count) ==
  IF count = 0 THEN i + 1
  ELSE PopFrom(stk, i - 1, IF stk[i].node.extra THEN count ELSE count - 1)

\* number of extras at the end of a sequence of stack entries
RECURSIVE TrailingExtras(_)
TrailingExtras(entries) ==
  IF entries = << >> \/ ~entries[Len(entries)].node.extra THEN 0
  ELSE 1 + TrailingExtras(SubSeq(entries, 1, Len(entries) - 1))

\* REDUCE(symbol, child_count): pop the children, push the parent in the goto state,
\* then push back the extras that trailed the children
ReduceStack(stk, symbol, child_count, at) ==
  LET first == PopFrom(stk, Len(stk), child_count)
      popped == SubSeq(stk, first, Len(stk))
      nextra == IF child_count = 0 THEN 0 ELSE TrailingExtras(popped)
      kids == SubSeq(popped, 1, Len(popped) - nextra)
      trailing == SubSeq(popped, Len(popped) - nextra + 1, Len(popped))
      base == SubSeq(stk, 1, first - 1)
      goto == ts_table_entry(base[Len(base)].state, symbol)
      parent == [symbol |-> symbol,
                 start |-> IF kids = << >> THEN at ELSE kids[1].node.start,
                 end |-> IF kids = << >> THEN at ELSE kids[Len(kids)].node.end,
                 extra |-> FALSE,
                 children |-> [i \in 1..Len(kids) |-> kids[i].node]]
  IN  base \o << [state |-> goto, node |-> parent] >>
           \o [i \in 1..Len(trailing) |-> [state |-> goto, node |-> trailing[i].node]]

parse_reduce ==
  /\ pc = "parse"
  /\ Len(CurrentActions) = 1
  /\ CurrentActions[1].type = "REDUCE"
  /\ stack' = ReduceStack(stack, CurrentActions[1].symbol, CurrentActions[1].child_count,
                          lookahead_token.start)
  /\ UNCHANGED << input, closed, nread, pc, lex_state, position, token_start, token_end,
                  result_symbol, lookahead_token, tokens >>
  /\ UNCHANGED suspended

\* ACCEPT_INPUT(): the parse is complete
parse_accept ==
  /\ pc = "parse"
  /\ Len(CurrentActions) = 1
  /\ CurrentActions[1].type = "ACCEPT_INPUT"
  /\ pc' = "accepted"
  /\ UNCHANGED << input, closed, nread, stack, lex_state, position, token_start, token_end,
                  result_symbol, lookahead_token, tokens >>
  /\ UNCHANGED suspended

\* no action for the lookahead in the current state: a syntax error
parse_error ==
  /\ pc = "parse"
  /\ CurrentActions = << >>
  /\ pc' = "error"
  /\ UNCHANGED << input, closed, nread, stack, lex_state, position, token_start, token_end,
                  result_symbol, lookahead_token, tokens >>
  /\ UNCHANGED suspended

Next ==
  \/ lex_advance
  \/ lex_skip
  \/ lex_return_token
  \/ lex_return_false
  \/ parse_shift
  \/ parse_shift_extra
  \/ parse_reduce
  \/ parse_accept
  \/ parse_error

Spec == Init /\ [][Next]_vars

\* ---- the scanner on its own: one call of ts_lex ----
\* The text starts with a head and is then read one character at a time, as far
\* as the call looks; at most MaxChars characters are read after the head.
MaxChars == 4

LexAlphabet == { 34, 92, 35, 10, 120, 32 }  \* " \ # newline x space

word_foo ==  \* foo
  << 102, 111, 111 >>
word_x ==  \* x
  << 120 >>
word_Foo ==  \* Foo
  << 70, 111, 111 >>
word_zz9 ==  \* zz9
  << 122, 122, 57 >>
word_mixed ==  \* a-b:c_d9
  << 97, 45, 98, 58, 99, 95, 100, 57 >>
\* words that are not the spelling of any token
UnknownWords == { word_foo, word_x, word_Foo, word_zz9, word_mixed }

word_digit_first ==  \* 9x
  << 57, 120 >>
word_hyphen_first ==  \* -x
  << 45, 120 >>
word_colon_first ==  \* :x
  << 58, 120 >>
word_underscore_first ==  \* _x
  << 95, 120 >>
word_number ==  \* 42
  << 52, 50 >>
word_negative ==  \* -5
  << 45, 53 >>
word_decimal ==  \* 1.5
  << 49, 46, 53 >>
word_exponent ==  \* 1e5
  << 49, 101, 53 >>
word_plus ==  \* +5
  << 43, 53 >>
word_single_open ==  \* 'x
  << 39, 120 >>
word_single ==  \* 'x'
  << 39, 120, 39 >>
\* words that show the shape of identifiers, numbers and single-quoted strings
ShapedWords ==
  { word_digit_first, word_hyphen_first, word_colon_first, word_underscore_first,
    word_number, word_negative, word_decimal, word_exponent,
    word_plus, word_single_open, word_single }

head_block_open ==  \* """
  << 34, 34, 34 >>
head_block_escaped ==  \* """\"""
  << 34, 34, 34, 92, 34, 34, 34 >>
head_block_quotes ==  \* """x"x""x
  << 34, 34, 34, 120, 34, 120, 34, 34, 120 >>
head_block_comment ==  \* """\nHello # not shown\nWorld\n"""
  << 34, 34, 34, 10, 72, 101, 108, 108, 111, 32, 35, 32, 110, 111, 116, 32, 115, 104,
     111, 119, 110, 10, 87, 111, 114, 108, 100, 10, 34, 34, 34 >>
head_raw_open ==  \* r#"
  << 114, 35, 34 >>
head_raw_quotes ==  \* r#"a""#
  << 114, 35, 34, 97, 34, 34, 35 >>
StringHeads ==
  { head_block_open, head_block_escaped, head_block_quotes, head_block_comment,
    head_raw_open, head_raw_quotes }

\* every word, bare and followed by a space
WordHeads ==
  LET words == TokenSpellings \cup UnknownWords
  IN  words \cup { word \o Space : word \in words } \cup { << >> }
\* the shaped words, bare and followed by a space
ShapedHeads == ShapedWords \cup { word \o Space : word \in ShapedWords }

ParseStates == 0..222
LexModes == { LexMode(state) : state \in ParseStates }
\* the first parse state of each lex mode
LexModeStates ==
  { CHOOSE state \in ParseStates :
      /\ LexMode(state) = mode
      /\ \A other \in ParseStates : LexMode(other) = mode => state <= other
    : mode \in LexModes }
\* block strings are lexed in the first parse states of lex modes 0 and 1
StringStates == { state \in LexModeStates : LexMode(state) \in {0, 1} }

InitLex ==
  /\ \E state \in LexModeStates :
       /\ stack = << [state |-> state, node |-> NoNode] >>
       /\ lex_state = LexMode(state)
       /\ input \in (IF state \in StringStates THEN WordHeads \cup StringHeads ELSE WordHeads)
                       \cup ShapedHeads
  /\ nread = 0
  /\ closed = FALSE
  /\ pc = "lex"
  /\ position = 0
  /\ token_start = 0
  /\ token_end = 0
  /\ result_symbol = NoToken
  /\ lookahead_token = NoLookahead
  /\ tokens = << >>
  /\ suspended = << >>

\* the source delivers one more character
read_char ==
  /\ pc = "lex"
  /\ ~Readable
  /\ nread < MaxChars
  /\ \E c \in LexAlphabet : input' = Append(input, c)
  /\ nread' = nread + 1
  /\ UNCHANGED << closed, pc, stack, lex_state, position, token_start, token_end,
                  result_symbol, lookahead_token, tokens >>
  /\ UNCHANGED suspended

\* the source reports end of input
read_eof ==
  /\ pc = "lex"
  /\ ~Readable
  /\ closed' = TRUE
  /\ UNCHANGED << input, nread, pc, stack, lex_state, position, token_start, token_end,
                  result_symbol, lookahead_token, tokens >>
  /\ UNCHANGED suspended

NextLex ==
  \/ read_char
  \/ read_eof
  \/ lex_advance
  \/ lex_skip
  \/ lex_return_token
  \/ lex_return_false

LexSpec == InitLex /\ [][NextLex]_vars

\* ---- concurrent calls: every call runs ts_lex on a TSLexer of its own ----
\* The tables and ts_lex are static const data and code, shared by every call;
\* the variables above hold the lexer of the call that is running, `suspended`
\* the lexers of the calls that are not.
MaxCalls == 2

\* foo, 42, 9x, "x", # c, 'x and a space before foo
CallTexts ==
  { word_foo, word_number, word_digit_first, text_string, text_comment,
    word_single_open, Space \o word_foo }
\* parse states whose lex modes are 0 and 1
CallStates == {1, 21}

\* the TSLexer of the running call, as handed to ts_lex
Lexer ==
  [ input |-> input,
    closed |-> closed,
    nread |-> nread,
    pc |-> pc,
    stack |-> stack,
    lex_state |-> lex_state,
    position |-> position,
    token_start |-> token_start,
    token_end |-> token_end,
    result_symbol |-> result_symbol,
    lookahead_token |-> lookahead_token,
    tokens |-> tokens ]
\* the TSLexer of a call that has not started
FreshLexer(text, state) ==
  [ input |-> text, closed |-> TRUE, nread |-> 0, pc |-> "lex",
    stack |-> << [state |-> state, node |-> NoNode] >>,
    lex_state |-> LexMode(state), position |-> 0, token_start |-> 0, token_end |-> 0,
    result_symbol |-> NoToken, lookahead_token |-> NoLookahead, tokens |-> << >> ]
\* the TSLexer of the i-th suspended call, had the cursor been one static
\* variable shared by the calls
Resumed_shared_position(i) == [suspended[i] EXCEPT !.position = position]
\* the TSLexer of the i-th suspended call: the `lexer` argument of its ts_lex
Resumed(i) == suspended[i]

InitCalls ==
  \E call \in [1..MaxCalls -> CallTexts \X CallStates] :
    /\ input = call[1][1]
    /\ closed = TRUE
    /\ nread = 0
    /\ pc = "lex"
    /\ stack = << [state |-> call[1][2], node |-> NoNode] >>
    /\ lex_state = LexMode(call[1][2])
    /\ position = 0
    /\ token_start = 0
    /\ token_end = 0
    /\ result_symbol = NoToken
    /\ lookahead_token = NoLookahead
    /\ tokens = << >>
    /\ suspended = [i \in 1..(MaxCalls - 1) |-> FreshLexer(call[i + 1][1], call[i + 1][2])]

\* the scheduler runs another call: the running call keeps its lexer as it is
switch_call ==
  \E i \in 1..Len(suspended) :
       /\ input' = Resumed(i).input
       /\ closed' = Resumed(i).closed
       /\ nread' = Resumed(i).nread
       /\ pc' = Resumed(i).pc
       /\ stack' = Resumed(i).stack
       /\ lex_state' = Resumed(i).lex_state
       /\ position' = Resumed(i).position
       /\ token_start' = Resumed(i).token_start
       /\ token_end' = Resumed(i).token_end
       /\ result_symbol' = Resumed(i).result_symbol
       /\ lookahead_token' = Resumed(i).lookahead_token
       /\ tokens' = Resumed(i).tokens
       /\ suspended' = [suspended EXCEPT ![i] = Lexer]

NextCalls ==
  \/ lex_advance
  \/ lex_skip
  \/ lex_return_token
  \/ lex_return_false
  \/ switch_call

CallSpec == InitCalls /\ [][NextCalls]_vars

\* ---- properties ----
TypeOK ==
  /\ pc \in {"lex", "parse", "accepted", "error"}
  /\ position \in 0..Len(input)
  /\ token_start <= position
  /\ token_end <= position
\* the text of a token or node
Text(node) == SubSeq(input, node.start + 1, node.end)
IsPrefix(prefix, text) ==
  Len(prefix) <= Len(text) /\ SubSeq(text, 1, Len(prefix)) = prefix
\* the parse has ended, with or without a syntax error
Finished == pc \in {"accepted", "error"}
\* the root of the tree once the input is accepted
Root == stack[2].node

\* the children of a node as the tree shows them: the children of a hidden
\* node (ts_symbol_metadata.visible = false) take its place
RECURSIVE VisibleChildren(_)
RECURSIVE VisibleOf(_, _)
VisibleOf(children, i) ==
  IF i > Len(children) THEN << >>
  ELSE (IF ts_symbol_metadata(children[i].symbol).visible THEN << children[i] >>
        ELSE VisibleChildren(children[i])) \o VisibleOf(children, i + 1)
VisibleChildren(node) == VisibleOf(node.children, 1)

word_room ==  \* room
  << 114, 111, 111, 109 >>

\* C2: the source `npc room { }` is accepted as a program holding one npc_def
\* whose children are the keyword `npc`, the identifier `room` and an npc_block;
\* and in every source the word `room` directly after `npc` is lexed as an
\* identifier, never as the keyword `room`.
C2_NpcNamedRoom ==
  /\ (input = def_npc_room /\ Finished) =>
        /\ pc = "accepted"
        /\ Root.symbol = sym_program
        /\ Len(VisibleChildren(Root)) = 1
        /\ LET def == VisibleChildren(Root)[1]
               kids == VisibleChildren(def)
           IN  /\ def.symbol = sym_npc_def
               /\ Len(kids) = 3
               /\ kids[1].symbol = anon_sym_npc
               /\ kids[2].symbol = sym_identifier
               /\ Text(kids[2]) = word_room
               /\ kids[3].symbol = sym_npc_block
  /\ \A i \in 1..Len(tokens) :
        (i > 1 /\ tokens[i - 1].symbol = anon_sym_npc /\ Text(tokens[i]) = word_room)
          => tokens[i].symbol = sym_identifier
C2_Witness ==
  /\ input = def_npc_room
  /\ pc = "accepted"
  /\ Len(tokens) >= 2
  /\ tokens[2].symbol = sym_identifier
  /\ Text(tokens[2]) = word_room
\* the named children of a node (ts_symbol_metadata.named)
NamedChildren(node) ==
  SelectSeq(VisibleChildren(node), LAMBDA child : ts_symbol_metadata(child.symbol).named)
\* the texts of nodes joined with `, `
RECURSIVE JoinTexts(_)
JoinTexts(nodes) ==
  IF nodes = << >> THEN << >>
  ELSE IF Len(nodes) = 1 THEN Text(nodes[1])
  ELSE Text(nodes[1]) \o << 44, 32 >> \o JoinTexts(Tail(nodes))
text_1_2_3 ==  \* 1, 2, 3
  << 49, 44, 32, 50, 44, 32, 51 >>
\* the first top-level node of an accepted source is a set_decl made of
\* `let` Identifier `=` set_list, whose values re-serialise to `1, 2, 3`
SetDeclWithoutSet ==
  /\ pc = "accepted"
  /\ VisibleChildren(Root) # << >>
  /\ LET decl == VisibleChildren(Root)[1]
         kids == VisibleChildren(decl)
     IN  /\ decl.symbol = sym_set_decl
         /\ Len(kids) = 4
         /\ kids[1].symbol = anon_sym_let
         /\ kids[2].symbol = sym_identifier
         /\ kids[3].symbol = anon_sym_EQ
         /\ kids[4].symbol = sym_set_list
         /\ JoinTexts(NamedChildren(kids[4])) = text_1_2_3

\* C8 as stated: the source `let x = (1, 2, 3)` is accepted as a set_decl of the
\* shape `let` Identifier `=` `(` SetList `)` whose values re-serialise to `1, 2, 3`.
C8_Original ==
  (input = text_let_x /\ Finished) => SetDeclWithoutSet

\* C8 amended: a set declaration has the shape `let` `set` Identifier `=` set_list
\* with set_list = `(` values `)`: the source `let set x = (1, 2, 3)` is accepted
\* as such a set_decl, and the texts of the values of its set_list, joined with
\* `, `, are `1, 2, 3`; directly after `let` only `set` (or a comment) is accepted.
C8_SetDecl ==
  /\ (input = def_let_set /\ Finished) =>
        /\ pc = "accepted"
        /\ Len(VisibleChildren(Root)) = 1
        /\ LET decl == VisibleChildren(Root)[1]
               kids == VisibleChildren(decl)
           IN  /\ decl.symbol = sym_set_decl
               /\ Len(kids) = 5
               /\ kids[1].symbol = anon_sym_let
               /\ kids[2].symbol = anon_sym_set
               /\ kids[3].symbol = sym_identifier
               /\ kids[4].symbol = anon_sym_EQ
               /\ kids[5].symbol = sym_set_list
               /\ VisibleChildren(kids[5])[1].symbol = anon_sym_LPAREN
               /\ VisibleChildren(kids[5])[Len(VisibleChildren(kids[5]))].symbol = anon_sym_RPAREN
               /\ Len(NamedChildren(kids[5])) = 3
               /\ JoinTexts(NamedChildren(kids[5])) = text_1_2_3
  /\ \A i \in 1..Len(stack) :
        (i > 1 /\ stack[i - 1].node.symbol = anon_sym_let /\ ~stack[i].node.extra)
          => stack[i].node.symbol = anon_sym_set
C8_Witness ==
  /\ input = def_let_set
  /\ pc = "accepted"
  /\ VisibleChildren(Root)[1].symbol = sym_set_decl

\* ---- top-level dispatch ----
\* the keywords that start a top-level definition
TopLevelKeywords ==
  {anon_sym_let, anon_sym_trigger, anon_sym_room, anon_sym_item, anon_sym_spinner,
   anon_sym_npc, anon_sym_goal}
\* the terminals of the grammar
TOKEN_COUNT == 81
Terminals == 0..(TOKEN_COUNT - 1)
\* the parse states between top-level definitions: those with a goto for a whole definition
TopLevelStates == {state \in ParseStates : ts_table_entry(state, sym_room_def) # 0}
AtTopLevel == TopState \in TopLevelStates

\* C9: whenever the parser is between top-level definitions, the tables give a
\* SHIFT (or, first, the REDUCE that folds the definitions parsed so far) for each
\* of the seven keywords let, trigger, room, item, spinner, npc and goal, and give
\* no action at all (a syntax error) for every other terminal except a comment,
\* which is an extra, and the end of input, which only reduces; a token lexed there that is none of these is a syntax error,
\* and every token shifted from there is one of the seven keywords.
C9_TopLevelDispatch ==
  /\ AtTopLevel =>
       \A symbol \in Terminals :
          LET acts == TableActions(TopState, symbol)
          IN  /\ symbol \in TopLevelKeywords =>
                    /\ Len(acts) = 1
                    /\ \/ acts[1].type = "SHIFT"
                       \/ acts[1].type = "REDUCE" /\ acts[1].symbol = aux_sym_program_repeat1
              /\ symbol = sym_comment => (Len(acts) = 1 /\ acts[1].type = "SHIFT_EXTRA")
              /\ symbol = ts_builtin_sym_end =>
                    /\ Len(acts) = 1
                    /\ acts[1].type = "REDUCE"
                    /\ acts[1].symbol \in {sym_program, aux_sym_program_repeat1}
              /\ symbol \notin TopLevelKeywords \cup {sym_comment, ts_builtin_sym_end} =>
                    acts = << >>
  /\ \A i \in 1..Len(tokens) :
        (/\ tokens[i].state \in TopLevelStates
         /\ tokens[i].symbol \notin TopLevelKeywords \cup {sym_comment, ts_builtin_sym_end}
         /\ pc # "parse")
          => pc = "error"
  /\ \A i \in 2..Len(stack) :
        (stack[i - 1].state \in TopLevelStates /\ stack[i].node.children = << >>
           /\ ~stack[i].node.extra /\ stack[i].node.symbol \in Terminals)
          => stack[i].node.symbol \in TopLevelKeywords
\* a token that is not one of the seven keywords was lexed between top-level
\* definitions and the parse stopped with a syntax error
C9_Witness ==
  /\ pc = "error"
  /\ AtTopLevel
  /\ lookahead_token.symbol = anon_sym_name
  /\ tokens # << >>
  /\ tokens[Len(tokens)].state = TopState

\* ---- block strings in a parse ----
\* a node and all its descendants
RECURSIVE NodesOf(_)
NodesOf(node) ==
  {node} \cup UNION { NodesOf(node.children[i]) : i \in 1..Len(node.children) }
\* the text of a block string between its delimiters, less the line break that
\* directly follows the opening delimiter
BlockValue(node) ==
  LET content == SubSeq(input, node.start + 4, node.end - 3)
  IN  IF content # << >> /\ content[1] = 10 THEN Tail(content) ELSE content
value_stripped ==  \* Hello \nWorld\n
  << 72, 101, 108, 108, 111, 32, 10, 87, 111, 114, 108, 100, 10 >>
value_kept ==  \* Hello # not shown\nWorld\n
  << 72, 101, 108, 108, 111, 32, 35, 32, 110, 111, 116, 32, 115, 104, 111, 119, 110, 10,
     87, 111, 114, 108, 100, 10 >>
\* the string nodes of the room_desc statements of the tree
DescStrings ==
  UNION { { s \in NodesOf(n) : s.symbol = sym_string } :
          n \in { d \in NodesOf(Root) : d.symbol = sym_room_desc } }

BlockTokens == { tokens[i] : i \in { j \in 1..Len(tokens) : tokens[j].symbol = aux_sym_string_token3 } }
\* `"""` lies at offset i of the text
TripleAt(i) ==
  /\ i >= 0
  /\ i + 3 <= Len(input)
  /\ input[i + 1] = 34 /\ input[i + 2] = 34 /\ input[i + 3] = 34
\* the offsets after the opening delimiter of a token at which a `"""` lies that
\* ends before the token does
InnerTriples(token) == { i \in (token.start + 3)..(token.end - 4) : TripleAt(i) }

\* C6: a block string token is at least six characters long, opens with `"""`
\* and ends directly after three `"` in a row: neither a single `"` nor two `"`
\* in a row in its content end it, and without three in a row no block string
\* token is produced.
C6_ThreeQuotesTerminate ==
  \A token \in BlockTokens :
     /\ token.end - token.start >= 6
     /\ TripleAt(token.start)
     /\ TripleAt(token.end - 3)
\* a block string whose content holds a single `"` and two `"` in a row was
\* lexed to its closing `"""`
C6_Witness ==
  /\ pc = "parse"
  /\ lookahead_token.symbol = aux_sym_string_token3
  /\ IsPrefix(head_block_quotes, input)
  /\ lookahead_token.end = Len(head_block_quotes) + 3

\* C7 as stated: a block string token never extends past the first `"""` that
\* follows its opening delimiter.
C7_Original ==
  \A token \in BlockTokens : InnerTriples(token) = {}

\* C7 amended: a block string token ends at a `"""` and never extends past the
\* first `"""` after its opening delimiter whose first `"` is not directly
\* preceded by a backslash; a `"""` directly preceded by a backslash can lie
\* inside the token.
C7_EndsAtUnescapedTriple ==
  \A token \in BlockTokens :
     /\ TripleAt(token.end - 3)
     /\ \A i \in InnerTriples(token) : input[i] = 92
\* the text `"""\""""` was lexed as one block string token of eight characters
C7_Witness ==
  /\ pc = "parse"
  /\ lookahead_token.symbol = aux_sym_string_token3
  /\ IsPrefix(head_block_escaped, input)
  /\ lookahead_token.start = 0
  /\ lookahead_token.end = Len(head_block_escaped) + 1

\* ---- keywords and identifiers by lex mode ----
\* the reserved words: the tokens spelled with a leading lower-case letter
ReservedWords ==
  { symbol \in anon_sym_true..anon_sym_progress :
      97 <= ts_symbol_names(symbol)[1] /\ ts_symbol_names(symbol)[1] <= 122 }
\* the terminals for which some parse state of a lex mode has an action; parse
\* state 0, entered only to recover from an error, is left out
ExpectedTokens ==
  [mode \in LexModes |->
     { symbol \in Terminals :
         \E state \in ParseStates \ {0} :
            LexMode(state) = mode /\ TableActions(state, symbol) # << >> }]
\* the lex modes in which an identifier is expected
IdentifierModes == { mode \in LexModes : sym_identifier \in ExpectedTokens[mode] }
\* the lex mode of the error state, in which every terminal has the RECOVER action
ErrorMode == LexMode(0)
\* the text starts with the word, followed by white space or the end of input
Delimited(word) ==
  \/ IsPrefix(word \o << 32 >>, input)
  \/ IsPrefix(word \o << 10 >>, input)
  \/ input = word /\ closed
\* the call of ts_lex has returned
LexDone == pc \in {"parse", "error"}
\* ts_lex returned an identifier spanning the word at the start of the text
IdentifierOver(word) ==
  /\ pc = "parse"
  /\ lookahead_token = [symbol |-> sym_identifier, start |-> 0, end |-> Len(word)]
KeywordOver(symbol) ==
  /\ pc = "parse"
  /\ lookahead_token = [symbol |-> symbol, start |-> 0, end |-> Len(ts_symbol_names(symbol))]

\* C3 as stated: a keyword token is returned only in a lex mode that expects
\* that keyword, and a reserved word, delimited by white space or the end of
\* input, that the current lex mode does not expect is lexed as an identifier
\* spanning the word.
C3_Original ==
  \A symbol \in ReservedWords :
     (Delimited(ts_symbol_names(symbol)) /\ LexDone) =>
        /\ (pc = "parse" /\ lookahead_token.symbol \in ReservedWords)
              => lookahead_token.symbol \in ExpectedTokens[LexMode(TopState)]
        /\ symbol \notin ExpectedTokens[LexMode(TopState)]
              => IdentifierOver(ts_symbol_names(symbol))

\* C3 amended: a reserved word, delimited by white space or the end of input, is
\* lexed as its keyword whenever a parse state of the current lex mode expects
\* that keyword, and outside the lex mode of the error state a keyword token is
\* returned only if the lex mode expects it; a reserved word the lex mode does
\* not expect is lexed as an identifier spanning the word in the lex modes that
\* expect identifiers, and in the other lex modes never as an identifier: there
\* ts_lex returns no token or a keyword token.
C3_KeywordsByLexMode ==
  /\ (pc = "parse" /\ lookahead_token.symbol \in ReservedWords /\ LexMode(TopState) # ErrorMode)
        => lookahead_token.symbol \in ExpectedTokens[LexMode(TopState)]
  /\ \A symbol \in ReservedWords :
        (Delimited(ts_symbol_names(symbol)) /\ LexDone) =>
           IF symbol \in ExpectedTokens[LexMode(TopState)] THEN KeywordOver(symbol)
           ELSE IF LexMode(TopState) \in IdentifierModes
                THEN IdentifierOver(ts_symbol_names(symbol))
                ELSE \/ pc = "error"
                     \/ pc = "parse" /\ lookahead_token.symbol \in ReservedWords
\* the word `trigger` was read in a lex mode that expects neither it nor an
\* identifier, and ts_lex returned no token
C3_Witness ==
  /\ pc = "error"
  /\ Delimited(ts_symbol_names(anon_sym_trigger))
  /\ anon_sym_trigger \notin ExpectedTokens[LexMode(TopState)]
  /\ LexMode(TopState) \notin IdentifierModes
  /\ LexMode(TopState) # ErrorMode

\* C10 as stated: in every lex mode an unknown word, delimited by white space or
\* the end of input, is lexed as an identifier spanning the word.
C10_Original ==
  \A word \in UnknownWords :
     (Delimited(word) /\ LexDone) => IdentifierOver(word)

\* C10 amended: in the lex modes that expect identifiers an unknown word,
\* delimited by white space or the end of input, is lexed as an identifier
\* spanning the word; in the other lex modes ts_lex returns no token for it, and
\* no identifier token is ever returned there.
C10_UnknownWordsByLexMode ==
  /\ \A word \in UnknownWords :
        (Delimited(word) /\ LexDone) =>
           IF LexMode(TopState) \in IdentifierModes THEN IdentifierOver(word)
           ELSE pc = "error"
  /\ (pc = "parse" /\ lookahead_token.symbol = sym_identifier)
        => LexMode(TopState) \in IdentifierModes
\* the unknown word `Foo` was lexed as an identifier
C10_Witness ==
  /\ Delimited(word_Foo)
  /\ IdentifierOver(word_Foo)
  /\ LexMode(TopState) \in IdentifierModes

\* ---- maximal munch ----
\* the text holds the word at the offset
TextAt(word, offset) ==
  /\ offset + Len(word) <= Len(input)
  /\ SubSeq(input, offset + 1, offset + Len(word)) = word
\* the tokens that have a fixed spelling
SpelledTokens == anon_sym_true..anon_sym_progress
\* the characters that continue an identifier (case 328 of ts_lex)
IdentifierChars == {35, 45, 95} \cup (48..58) \cup (65..90) \cup (97..122)
Letters == (65..90) \cup (97..122)
word_description ==  \* description
  << 100, 101, 115, 99, 114, 105, 112, 116, 105, 111, 110 >>
\* no token that the lex mode expects is longer than the token returned, an
\* identifier runs to the end of its word, and ts_lex does not fail where a
\* token that the lex mode expects is spelled
LongestExpectedToken ==
  /\ pc = "parse" =>
       \A symbol \in SpelledTokens \cap ExpectedTokens[LexMode(TopState)] :
          TextAt(ts_symbol_names(symbol), lookahead_token.start)
            => lookahead_token.end >= lookahead_token.start + Len(ts_symbol_names(symbol))
  /\ (/\ pc = "parse"
      /\ LexMode(TopState) \in IdentifierModes
      /\ lookahead_token.symbol \notin aux_sym_string_token1..aux_sym_string_token5
      /\ lookahead_token.end > lookahead_token.start
      /\ input[lookahead_token.start + 1] \in Letters)
       => \/ lookahead_token.end = Len(input)
          \/ input[lookahead_token.end + 1] \notin IdentifierChars
  /\ pc = "error" =>
       \A symbol \in SpelledTokens \cap ExpectedTokens[LexMode(TopState)] :
          ~TextAt(ts_symbol_names(symbol), token_start)
\* the token `desc` was returned for a text that goes on to spell `description`
DescOfDescription ==
  /\ pc = "parse"
  /\ lookahead_token.symbol = anon_sym_desc
  /\ TextAt(word_description, lookahead_token.start)

ListedActions(state, symbol) == ts_parse_actions(ts_table_entry(state, symbol))
\* the auxiliary symbols of repetitions
RepeatSymbols == aux_sym_program_repeat1..aux_sym_goal_def_repeat1
\* the entries of the tables that list two actions for the parser to act on, or
\* two actions that are not the REDUCE of a repetition and its SHIFT_REPEAT
ConflictingEntries ==
  { entry \in ParseStates \X Terminals :
      \/ Len(TableActions(entry[1], entry[2])) > 1
      \/ /\ Len(ListedActions(entry[1], entry[2])) > 1
         /\ ~ /\ Len(ListedActions(entry[1], entry[2])) = 2
              /\ ListedActions(entry[1], entry[2])[1].type = "REDUCE"
              /\ ListedActions(entry[1], entry[2])[1].symbol \in RepeatSymbols
              /\ ListedActions(entry[1], entry[2])[2].type = "SHIFT_REPEAT" }

\* C12: no parse state has two competing actions for a lookahead token: every
\* entry of the tables lists at most one action that the parser acts on, and
\* an entry that lists two is the REDUCE of a repetition followed by the
\* SHIFT_REPEAT that marks it; so at every step of a parse the lookahead token
\* selects at most one action.
C12_NoCompetingActions ==
  /\ ConflictingEntries = {}
  /\ pc = "parse" => Len(CurrentActions) <= 1
\* the parser is about to act on an entry that lists a REDUCE and a SHIFT_REPEAT
C12_Witness ==
  /\ pc = "parse"
  /\ Len(ListedActions(TopState, lookahead_token.symbol)) = 2
  /\ Len(CurrentActions) = 1
  /\ CurrentActions[1].type = "REDUCE"

\* ---- the shape of the definitions ----
TopNode == stack[Len(stack)].node
\* the kinds of definition with a block, their keyword, block and statement symbols
BlockKinds ==
  { [def |-> sym_room_def, keyword |-> anon_sym_room, block |-> sym_room_block, stmt |-> sym_room_stmt],
    [def |-> sym_item_def, keyword |-> anon_sym_item, block |-> sym_item_block, stmt |-> sym_item_stmt],
    [def |-> sym_npc_def, keyword |-> anon_sym_npc, block |-> sym_npc_block, stmt |-> sym_npc_stmt],
    [def |-> sym_spinner_def, keyword |-> anon_sym_spinner, block |-> sym_spinner_block,
     stmt |-> sym_wedge_stmt] }
GoalKind ==
  [def |-> sym_goal_def, keyword |-> anon_sym_goal, block |-> sym_goal_def, stmt |-> sym_goal_stmt]
\* the children of a node without the comments among them
Children(node) == SelectSeq(VisibleChildren(node), LAMBDA child : ~child.extra)
\* the node is <keyword> Identifier block, the block being `{` statements `}`
BlockShape(node, kind) ==
  /\ Len(Children(node)) = 3
  /\ Children(node)[1].symbol = kind.keyword
  /\ Children(node)[2].symbol = sym_identifier
  /\ Children(node)[3].symbol = kind.block
  /\ LET inner == Children(Children(node)[3])
     IN  /\ Len(inner) >= 2
         /\ inner[1].symbol = anon_sym_LBRACE
         /\ inner[Len(inner)].symbol = anon_sym_RBRACE
         /\ \A i \in 2..(Len(inner) - 1) : inner[i].symbol = kind.stmt
\* the node is `goal` Identifier string statements, without braces
GoalShape(node) ==
  /\ Len(Children(node)) >= 3
  /\ Children(node)[1].symbol = anon_sym_goal
  /\ Children(node)[2].symbol = sym_identifier
  /\ Children(node)[3].symbol = sym_string
  /\ \A i \in 4..Len(Children(node)) : Children(node)[i].symbol = sym_goal_stmt
\* after <keyword> Identifier of a definition with a block only `{` is accepted,
\* after `goal` Identifier only a string
AfterDefName ==
  (/\ pc = "parse"
   /\ Len(stack) >= 3
   /\ TopNode.symbol = sym_identifier
   /\ stack[Len(stack) - 1].node.symbol \in { kind.keyword : kind \in BlockKinds \cup {GoalKind} }
   /\ stack[Len(stack) - 2].state \in TopLevelStates
   /\ lookahead_token.symbol # sym_comment
   /\ CurrentActions # << >>)
    => IF stack[Len(stack) - 1].node.symbol = anon_sym_goal
       THEN lookahead_token.symbol \in aux_sym_string_token1..aux_sym_string_token5
       ELSE lookahead_token.symbol = anon_sym_LBRACE

\* C13 as stated: every room, item, npc, spinner and goal definition is
\* <kind> Identifier `{` statements `}`.
C13_Original ==
  \A kind \in BlockKinds \cup {GoalKind} :
     TopNode.symbol = kind.def =>
        /\ Len(Children(TopNode)) = 3
        /\ Children(TopNode)[1].symbol = kind.keyword
        /\ Children(TopNode)[2].symbol = sym_identifier
        /\ Len(Children(Children(TopNode)[3])) >= 2
        /\ Children(Children(TopNode)[3])[1].symbol = anon_sym_LBRACE
        /\ Children(Children(TopNode)[3])[Len(Children(Children(TopNode)[3]))].symbol
              = anon_sym_RBRACE

\* C13 amended: every room, item, npc and spinner definition is <kind>
\* Identifier `{` statements `}`, and after <kind> Identifier only `{` is
\* accepted; a goal definition is `goal` Identifier string followed by its
\* statements, without braces, and after `goal` Identifier only a string is
\* accepted, so `goal A { }` is a syntax error at `{`.
C13_DefinitionShapes ==
  /\ \A kind \in BlockKinds : TopNode.symbol = kind.def => BlockShape(TopNode, kind)
  /\ TopNode.symbol = sym_goal_def => GoalShape(TopNode)
  /\ AfterDefName
  /\ (input = text_goal_braces /\ Finished) =>
        (pc = "error" /\ lookahead_token.symbol = anon_sym_LBRACE)
\* a goal definition with three statements and no braces was reduced
C13_Witness ==
  /\ input = text_goal_stmts
  /\ TopNode.symbol = sym_goal_def
  /\ Len(Children(TopNode)) = 6

\* ---- the shape of a trigger ----
\* the node is `only` `once` or `when` cond_line
ModifierShape(node) ==
  /\ Len(Children(node)) = 2
  /\ \/ Children(node)[1].symbol = anon_sym_only /\ Children(node)[2].symbol = anon_sym_once
     \/ Children(node)[1].symbol = anon_sym_when /\ Children(node)[2].symbol = sym_cond_line
\* the node is `trigger` name modifiers block, the name an identifier or a string
\* and the block `{` statements `}`
TriggerShape(node) ==
  /\ Len(Children(node)) >= 3
  /\ Children(node)[1].symbol = anon_sym_trigger
  /\ Children(node)[2].symbol \in {sym_identifier, sym_string}
  /\ \A i \in 3..(Len(Children(node)) - 1) :
        /\ Children(node)[i].symbol = sym_trigger_mod
        /\ ModifierShape(Children(node)[i])
  /\ LET block == Children(node)[Len(Children(node))]
     IN  /\ block.symbol = sym_trigger_block
         /\ Children(block)[1].symbol = anon_sym_LBRACE
         /\ Children(block)[Len(Children(block))].symbol = anon_sym_RBRACE
         /\ \A i \in 2..(Len(Children(block)) - 1) : Children(block)[i].symbol = sym_trigger_stmt
\* the symbols of the children of the first definition of an accepted source
FirstDefinition == Children(Root)[1]
ChildSymbols(node) == [i \in 1..Len(Children(node)) |-> Children(node)[i].symbol]

\* C14 as stated: each of `trigger when x { }`, `trigger only when x { }`,
\* `trigger once when x { }` and `trigger only once when x { }` is accepted as
\* a trigger made of the keyword `trigger`, the keywords `only` and `once` that
\* are written, the `when` clause and the block.
C14_Original ==
  /\ (input = text_trigger_when /\ Finished) =>
        /\ pc = "accepted"
        /\ Children(FirstDefinition)[2].symbol = sym_trigger_mod
  /\ (input = text_trigger_only_when /\ Finished) =>
        /\ pc = "accepted"
        /\ Children(FirstDefinition)[2].symbol # sym_identifier
  /\ (input = text_trigger_once_when /\ Finished) =>
        /\ pc = "accepted"
        /\ Children(FirstDefinition)[2].symbol # sym_identifier
  /\ (input = text_trigger_only_once_when /\ Finished) =>
        /\ pc = "accepted"
        /\ Children(FirstDefinition)[2].symbol # sym_identifier

\* C14 amended: a trigger is `trigger` name modifier* `{` statements `}`, the
\* name being an identifier or a string and each modifier being `only` `once`
\* (the two together) or `when` cond_line, in any order and number: after the
\* name only `only`, `when` and `{` are accepted and after `only` only `once`.
\* So `trigger "t" only once when x y { }`, `trigger "t" when x only once { }`
\* and `trigger "t" { }` are accepted; `trigger when x { }`,
\* `trigger only once when x { }`, `trigger "t" once when x { }` and
\* `trigger "t" only when x { }` are errors; in `trigger only when x { }` and
\* `trigger once when x { }` the word after `trigger` is the name.
C14_TriggerShape ==
  /\ TopNode.symbol = sym_trigger => TriggerShape(TopNode)
  /\ (pc = "parse" /\ TopNode.symbol = anon_sym_only /\ CurrentActions # << >>)
        => lookahead_token.symbol \in {anon_sym_once, sym_comment}
  /\ (/\ pc = "parse"
      /\ Len(stack) >= 3
      /\ stack[Len(stack) - 1].node.symbol = anon_sym_trigger
      /\ TopNode.symbol \in {sym_identifier, sym_string}
      /\ CurrentActions # << >>)
        => lookahead_token.symbol \in {anon_sym_only, anon_sym_when, anon_sym_LBRACE, sym_comment}
  /\ (input = text_trigger_mods /\ Finished) =>
        /\ pc = "accepted"
        /\ ChildSymbols(FirstDefinition)
             = << anon_sym_trigger, sym_string, sym_trigger_mod, sym_trigger_mod, sym_trigger_block >>
        /\ Children(Children(FirstDefinition)[3])[1].symbol = anon_sym_only
        /\ Children(Children(FirstDefinition)[4])[1].symbol = anon_sym_when
  /\ (input = text_trigger_when_first /\ Finished) =>
        /\ pc = "accepted"
        /\ Children(Children(FirstDefinition)[3])[1].symbol = anon_sym_when
        /\ Children(Children(FirstDefinition)[4])[1].symbol = anon_sym_only
  /\ (input = text_trigger_bare /\ Finished) =>
        /\ pc = "accepted"
        /\ ChildSymbols(FirstDefinition) = << anon_sym_trigger, sym_string, sym_trigger_block >>
  /\ (input \in {text_trigger_when, text_trigger_only_once_when, text_trigger_once,
                 text_trigger_only} /\ Finished) => pc = "error"
  /\ (input \in {text_trigger_only_when, text_trigger_once_when} /\ Finished) =>
        /\ pc = "accepted"
        /\ ChildSymbols(FirstDefinition)
             = << anon_sym_trigger, sym_identifier, sym_trigger_mod, sym_trigger_block >>
\* the trigger with both modifiers was accepted
C14_Witness ==
  /\ input = text_trigger_mods
  /\ pc = "accepted"
  /\ Len(Children(FirstDefinition)) = 5

\* ---- the statements of a trigger block ----
\* the parse states at the start of a statement of a trigger block
TriggerBlockStates == { state \in ParseStates \ {0} : ts_table_entry(state, sym_trigger_stmt) # 0 }
\* the terminals, other than `if`, `do`, `}` and a comment, that have an action
\* at the start of a statement of a trigger block
OtherStatementStarts ==
  { entry \in TriggerBlockStates \X Terminals :
      /\ entry[2] \notin {anon_sym_if, anon_sym_do, anon_sym_RBRACE, sym_comment}
      /\ TableActions(entry[1], entry[2]) # << >> }
\* the statements of the trigger block of the first definition
FirstTriggerStmts ==
  LET block == Children(FirstDefinition)[Len(Children(FirstDefinition))]
  IN  [i \in 1..(Len(Children(block)) - 2) |-> Children(Children(block)[i + 1])[1]]

\* C15 as stated: in a trigger block a bare action line, an `if` block and a
\* `do` line are each accepted as a statement.
C15_Original ==
  /\ (input = text_trigger_stmts /\ Finished) => pc = "accepted"
  /\ (input = text_trigger_bare_action /\ Finished) => pc = "accepted"

\* C15 amended: inside a trigger block a statement is one of two forms, an
\* `if` cond_line_ext braced_block or a `do` action list, and each is accepted;
\* at the start of a statement only `if`, `do`, the closing `}` and a comment
\* have an action, so a bare action line such as `x y` is an error.
C15_TriggerStatements ==
  /\ OtherStatementStarts = {}
  /\ TopNode.symbol = sym_trigger_stmt =>
        /\ Len(Children(TopNode)) = 1
        /\ \/ /\ Children(TopNode)[1].symbol = sym_if_block
              /\ Len(Children(Children(TopNode)[1])) = 3
              /\ ChildSymbols(Children(TopNode)[1])
                   = << anon_sym_if, sym_cond_line_ext, sym_braced_block >>
           \/ /\ Children(TopNode)[1].symbol = sym_do_stmt
              /\ Children(Children(TopNode)[1])[1].symbol = anon_sym_do
              /\ Len(Children(Children(TopNode)[1])) >= 2
  /\ (input = text_trigger_stmts /\ Finished) =>
        /\ pc = "accepted"
        /\ Len(FirstTriggerStmts) = 2
        /\ FirstTriggerStmts[1].symbol = sym_do_stmt
        /\ FirstTriggerStmts[2].symbol = sym_if_block
  /\ (input = text_trigger_bare_action /\ Finished) =>
        (pc = "error" /\ TopState \in TriggerBlockStates)
\* the trigger with a `do` line and an `if` block was accepted
C15_Witness ==
  /\ input = text_trigger_stmts
  /\ pc = "accepted"
  /\ Len(FirstTriggerStmts) = 2

\* ---- the condition of a `when` clause ----
\* the terminals on which some parse state reduces a cond_line, the condition
\* of a `when` clause: the tokens that end it
CondLineEnds ==
  { symbol \in Terminals :
      \E state \in ParseStates \ {0} :
         \E i \in 1..Len(TableActions(state, symbol)) :
            /\ TableActions(state, symbol)[i].type = "REDUCE"
            /\ TableActions(state, symbol)[i].symbol = sym_cond_line }
\* the parser is about to reduce the words read so far to a cond_line
ReducingCondLine ==
  /\ pc = "parse"
  /\ Len(CurrentActions) = 1
  /\ CurrentActions[1].type = "REDUCE"
  /\ CurrentActions[1].symbol = sym_cond_line
\* the tokens a cond_line is made of
CondLineWords == {sym_identifier, sym_number, sym_string}

\* C16 as stated: the condition of a trigger's `when` clause is ended by the
\* lookahead `{` and by no other token.
C16_Original ==
  ReducingCondLine => lookahead_token.symbol = anon_sym_LBRACE

\* C16 amended: the condition of a trigger's `when` clause is a flat run of
\* identifiers, numbers and strings, and its end is recognised by the lookahead
\* alone: exactly the three tokens `{`, `only` and `when` end it, the last two
\* starting the next modifier of the trigger. So in
\* `trigger "t" when x only once { }` the condition is `x`, and in
\* `trigger "t" when x when y 2 { }` the conditions are `x` and `y 2`.
C16_CondLineEnd ==
  /\ CondLineEnds = {anon_sym_LBRACE, anon_sym_only, anon_sym_when}
  /\ ReducingCondLine =>
        lookahead_token.symbol \in {anon_sym_LBRACE, anon_sym_only, anon_sym_when}
  /\ TopNode.symbol = sym_cond_line =>
        /\ Len(Children(TopNode)) >= 1
        /\ \A i \in 1..Len(Children(TopNode)) : Children(TopNode)[i].symbol \in CondLineWords
        /\ Len(VisibleChildren(TopNode)) = Len(Children(TopNode))
  /\ (input = text_trigger_when_first /\ Finished) =>
        /\ pc = "accepted"
        /\ ChildSymbols(Children(FirstDefinition)[3]) = << anon_sym_when, sym_cond_line >>
        /\ Text(Children(Children(FirstDefinition)[3])[2]) = << 120 >>
  /\ (input = text_trigger_two_whens /\ Finished) =>
        /\ pc = "accepted"
        /\ ChildSymbols(FirstDefinition)
             = << anon_sym_trigger, sym_string, sym_trigger_mod, sym_trigger_mod, sym_trigger_block >>
        /\ Text(Children(Children(FirstDefinition)[3])[2]) = << 120 >>
        /\ Text(Children(Children(FirstDefinition)[4])[2]) = << 121, 32, 50 >>
\* the condition `x` is being reduced with `only` as the lookahead
C16_Witness ==
  /\ input = text_trigger_when_first
  /\ ReducingCondLine
  /\ lookahead_token.symbol = anon_sym_only

\* ---- the statement keywords of each kind of definition ----
\* the terminals that some parse state at the start of a statement `stmt` shifts,
\* the closing brace of the block apart: the keywords that start such a statement
StatementStarts(stmt) ==
  { symbol \in Terminals \ {anon_sym_RBRACE} :
      \E state \in ParseStates \ {0} :
         /\ ts_table_entry(state, stmt) # 0
         /\ \E i \in 1..Len(ListedActions(state, symbol)) :
               ListedActions(state, symbol)[i].type \in {"SHIFT", "SHIFT_REPEAT"} }
\* the statement keywords of each kind, as the tables have them
StatementKeywords ==
  [stmt \in {sym_room_stmt, sym_item_stmt, sym_npc_stmt, sym_wedge_stmt, sym_goal_stmt}
     |-> StatementStarts(stmt)]
\* the first token of a node
RECURSIVE FirstToken(_)
FirstToken(node) ==
  IF node.children = << >> THEN node ELSE FirstToken(node.children[1])

\* C17 as stated: the statement keywords are, for a room, name desc description
\* visited overlay exit; for an item, name desc portable text ability container
\* location restricted; for an npc, name desc state movement dialogue location;
\* for a spinner, width and wedge; for a goal, desc group done start and
\* `condition`, so that a spinner may start with a `width` statement and a goal
\* may hold a `condition` statement.
C17_Original ==
  /\ StatementKeywords[sym_room_stmt]
       = {anon_sym_name, anon_sym_desc, anon_sym_description, anon_sym_visited,
          anon_sym_overlay, anon_sym_exit}
  /\ StatementKeywords[sym_item_stmt]
       = {anon_sym_name, anon_sym_desc, anon_sym_portable, anon_sym_text, anon_sym_ability,
          anon_sym_container, anon_sym_location, anon_sym_restricted}
  /\ StatementKeywords[sym_npc_stmt]
       = {anon_sym_name, anon_sym_desc, anon_sym_state, anon_sym_movement,
          anon_sym_dialogue, anon_sym_location}
  /\ StatementKeywords[sym_wedge_stmt] = {anon_sym_width, anon_sym_wedge}
  /\ (input = text_spinner_width /\ Finished) => pc = "accepted"
  /\ (input = text_goal_condition /\ Finished) => pc = "accepted"

\* C17 amended: the statement keywords are, for a room, name desc description
\* visited overlay exit; for an item, name desc description text portable
\* ability container restricted location; for an npc, name desc description
\* state movement dialogue location; for a spinner, wedge alone (`width`
\* belongs to a wedge statement, after its string); for a goal, desc group done
\* start (there is no `condition` keyword). Each listed keyword is shifted at
\* the start of a statement of its kind, every statement starts with a keyword
\* of its kind, `spinner A { width 2 wedge "a" }` is an error at `width` and
\* `goal A "x" condition has flag f` is an error at `condition`.
C17_StatementKeywords ==
  /\ StatementKeywords[sym_room_stmt]
       = {anon_sym_name, anon_sym_desc, anon_sym_description, anon_sym_visited,
          anon_sym_overlay, anon_sym_exit}
  /\ StatementKeywords[sym_item_stmt]
       = {anon_sym_name, anon_sym_desc, anon_sym_description, anon_sym_text,
          anon_sym_portable, anon_sym_ability, anon_sym_container, anon_sym_restricted,
          anon_sym_location}
  /\ StatementKeywords[sym_npc_stmt]
       = {anon_sym_name, anon_sym_desc, anon_sym_description, anon_sym_state,
          anon_sym_movement, anon_sym_dialogue, anon_sym_location}
  /\ StatementKeywords[sym_wedge_stmt] = {anon_sym_wedge}
  /\ StatementKeywords[sym_goal_stmt]
       = {anon_sym_desc, anon_sym_group, anon_sym_done, anon_sym_start}
  /\ TopNode.symbol \in DOMAIN StatementKeywords =>
        FirstToken(TopNode).symbol \in StatementKeywords[TopNode.symbol]
  /\ (input = text_spinner_width /\ Finished) =>
        (pc = "error" /\ lookahead_token.symbol = anon_sym_width
           /\ TopNode.symbol = anon_sym_LBRACE)
  /\ (input = text_spinner_wedge_width /\ Finished) => pc = "accepted"
  /\ (input = text_goal_condition /\ Finished) => (pc = "error" /\ Len(tokens) = 3)
  /\ (input = text_goal_stmts /\ Finished) => pc = "accepted"
\* a wedge statement that holds a `width` was reduced
C17_Witness ==
  /\ input = text_spinner_wedge_width
  /\ TopNode.symbol = sym_wedge_stmt
  /\ Len(Children(TopNode)) = 4
  /\ Children(TopNode)[3].symbol = anon_sym_width

\* ---- the two spellings of a description ----
\* the parse states that shift `symbol`, each with the state the shift leads to
ShiftsOf(symbol) ==
  UNION { { << state, ListedActions(state, symbol)[i].state >> :
              i \in { k \in 1..Len(ListedActions(state, symbol)) :
                        ListedActions(state, symbol)[k].type \in {"SHIFT", "SHIFT_REPEAT"} } } :
          state \in ParseStates \ {0} }
\* the shifts of `desc` and of `description`
DescShifts == ShiftsOf(anon_sym_desc)
DescriptionShifts == ShiftsOf(anon_sym_description)
\* the nodes of a description statement in a room, an item and an npc
DescKinds == {sym_room_desc, sym_item_desc, sym_npc_desc}

\* C18 as stated: wherever `desc` starts a description statement `description`
\* starts one too, with the same node as the result; so a goal may be given
\* its description with either spelling.
C18_Original ==
  /\ DescShifts = DescriptionShifts
  /\ (input = text_goal_description /\ Finished) => pc = "accepted"

\* C18 amended: in a room, an item and an npc block `desc` and `description`
\* are synonyms: every parse state that shifts one shifts the other to the same
\* state, and both spellings give the same node (room_desc, item_desc or
\* npc_desc, made of the keyword and a string). In a goal definition only
\* `desc` is accepted: the states that shift `desc` and not `description` are
\* those at the start of a goal statement, and `goal A "x" description "y"`
\* is an error.
C18_DescSynonyms ==
  /\ DescriptionShifts \subseteq DescShifts
  /\ DescriptionShifts # {}
  /\ DescShifts \ DescriptionShifts # {}
  /\ \A shift \in DescShifts \ DescriptionShifts :
        ts_table_entry(shift[1], sym_goal_stmt) # 0
  /\ \A shift \in DescriptionShifts :
        ts_table_entry(shift[1], sym_goal_stmt) = 0
  /\ TopNode.symbol \in DescKinds =>
        ChildSymbols(TopNode) \in { << anon_sym_desc, sym_string >>,
                                    << anon_sym_description, sym_string >> }
  /\ TopNode.symbol = sym_goal_desc =>
        ChildSymbols(TopNode) = << anon_sym_desc, sym_string >>
  /\ (input = text_npc_description /\ Finished) =>
        /\ pc = "accepted"
        /\ LET block == Children(FirstDefinition)[3]
           IN  /\ ChildSymbols(block)
                    = << anon_sym_LBRACE, sym_npc_stmt, sym_npc_stmt, anon_sym_RBRACE >>
               /\ ChildSymbols(Children(block)[2]) = << sym_npc_desc >>
               /\ ChildSymbols(Children(block)[3]) = << sym_npc_desc >>
               /\ FirstToken(Children(block)[2]).symbol = anon_sym_desc
               /\ FirstToken(Children(block)[3]).symbol = anon_sym_description
  /\ (input \in {text_room_description, text_item_description} /\ Finished) =>
        pc = "accepted"
  /\ (input = text_goal_description /\ Finished) => pc = "error"
\* a description spelled `description` was reduced in an npc block
C18_Witness ==
  /\ input = text_npc_description
  /\ TopNode.symbol = sym_npc_desc
  /\ Children(TopNode)[1].symbol = anon_sym_description

\* ---- the exit statement of a room ----
\* the parse states entered by the shift of `exit`
ExitStates == { shift[2] : shift \in ShiftsOf(anon_sym_exit) }
\* the terminals that have an action right after `exit`
AfterExit ==
  UNION { { symbol \in Terminals : TableActions(state, symbol) # << >> } : state \in ExitStates }
\* the three attributes of an exit
ExitAttrs == {sym_exit_required_flags, sym_exit_required_items, sym_exit_barred}

\* C19 as stated: in an exit statement `->` directly follows the keyword `exit`,
\* then come the target and a block of attributes, so
\* `room A { exit -> B { barred "m" } }` is accepted.
C19_Original ==
  /\ TopNode.symbol = sym_exit_stmt =>
        /\ Len(Children(TopNode)) = 4
        /\ Children(TopNode)[2].symbol = anon_sym_DASH_GT
        /\ Children(TopNode)[4].symbol = sym_exit_block
  /\ (input = text_exit_arrow /\ Finished) => pc = "accepted"

\* C19 amended: an exit statement is `exit` direction `->` target, optionally
\* followed by a block `{` attributes `}`: the direction, an identifier or a
\* string, comes between `exit` and `->` (right after `exit` only an identifier
\* or a string is accepted), the target is an identifier, and each attribute is
\* required_flags(...), required_items(...) or `barred` with a string. So
\* `room A { exit n -> B { required_flags(a) required_items(b) barred "m" } }`
\* and `room A { exit "n" -> B }` are accepted and
\* `room A { exit -> B { barred "m" } }` is an error.
C19_ExitStatement ==
  /\ ExitStates # {}
  /\ AfterExit = {sym_comment, sym_identifier} \cup (aux_sym_string_token1..aux_sym_string_token5)
  /\ TopNode.symbol = sym_exit_stmt =>
        /\ Len(Children(TopNode)) \in {4, 5}
        /\ Children(TopNode)[1].symbol = anon_sym_exit
        /\ Children(TopNode)[2].symbol \in {sym_identifier, sym_string}
        /\ Children(TopNode)[3].symbol = anon_sym_DASH_GT
        /\ Children(TopNode)[4].symbol = sym_identifier
        /\ Len(Children(TopNode)) = 5 => Children(TopNode)[5].symbol = sym_exit_block
  /\ TopNode.symbol = sym_exit_block =>
        /\ Children(TopNode)[1].symbol = anon_sym_LBRACE
        /\ Children(TopNode)[Len(Children(TopNode))].symbol = anon_sym_RBRACE
        /\ \A i \in 2..(Len(Children(TopNode)) - 1) :
              Children(TopNode)[i].symbol \in {sym_exit_attr, anon_sym_COMMA}
  /\ TopNode.symbol = sym_exit_attr =>
        /\ Len(Children(TopNode)) \in {1, 2}
        /\ Children(TopNode)[1].symbol \in ExitAttrs
        /\ Len(Children(TopNode)) = 2 => Children(TopNode)[2].symbol = anon_sym_COMMA
  /\ TopNode.symbol = sym_exit_barred =>
        ChildSymbols(TopNode) = << anon_sym_barred, sym_string >>
  /\ TopNode.symbol \in {sym_exit_required_flags, sym_exit_required_items} =>
        /\ Len(Children(TopNode)) >= 4
        /\ Children(TopNode)[2].symbol = anon_sym_LPAREN
        /\ Children(TopNode)[Len(Children(TopNode))].symbol = anon_sym_RPAREN
  /\ (input = text_exit_full /\ Finished) => pc = "accepted"
  /\ (input = text_exit_plain /\ Finished) => pc = "accepted"
  /\ (input = text_exit_arrow /\ Finished) =>
        (pc = "error" /\ stack[Len(stack) - 1].node.symbol = anon_sym_exit)
\* an exit statement with a direction and a block of three attributes was reduced
C19_Witness ==
  /\ input = text_exit_full
  /\ TopNode.symbol = sym_exit_stmt
  /\ Len(Children(TopNode)) = 5
  /\ Len(Children(Children(TopNode)[5])) = 5

\* ---- the condition of a goal ----
\* the parse states at the start of a goal condition
GoalCondStates == { state \in ParseStates \ {0} : ts_table_entry(state, sym_goal_cond) # 0 }
\* the terminals that have an action at the start of a goal condition
GoalCondStarts ==
  UNION { { symbol \in Terminals : TableActions(state, symbol) # << >> } :
          state \in GoalCondStates }
\* the forms of a goal condition
GoalCondForms ==
  { << anon_sym_has, anon_sym_flag, sym_identifier >>,
    << anon_sym_has, anon_sym_item, sym_identifier >>,
    << anon_sym_missing, anon_sym_flag, sym_identifier >>,
    << anon_sym_reached, anon_sym_room, sym_identifier >>,
    << anon_sym_goal, anon_sym_complete, sym_identifier >>,
    << anon_sym_flag, anon_sym_complete, sym_identifier >>,
    << anon_sym_flag, anon_sym_in, anon_sym_progress, sym_identifier >> }
\* the goal conditions of the first definition, a goal
FirstGoalConds ==
  { node \in NodesOf(FirstDefinition) : node.symbol = sym_goal_cond }

\* C20 as stated: `goal B done` and `missing item i` are goal conditions, and
\* conditions may be put in parentheses, in a comma list, or side by side.
C20_Original ==
  /\ (input = text_goal_cond_done /\ Finished) => pc = "accepted"
  /\ (input = text_goal_cond_missing_item /\ Finished) => pc = "accepted"
  /\ (input = text_goal_cond_paren /\ Finished) => pc = "accepted"
  /\ (input = text_goal_cond_comma /\ Finished) => pc = "accepted"
  /\ (input = text_goal_cond_two /\ Finished) => pc = "accepted"

\* C20 amended: a goal condition is exactly one of the seven forms
\* `has flag F`, `has item I`, `missing flag F`, `reached room R`,
\* `goal complete G`, `flag complete F` and `flag in progress F`; it starts with
\* one of goal, has, flag, missing, reached, and `done when` and `start when`
\* take a single condition: `goal B done`, `missing item i`, a condition in
\* parentheses, and a second condition after a comma or side by side are each
\* an error.
C20_GoalConditions ==
  /\ GoalCondStates # {}
  /\ GoalCondStarts = {sym_comment, anon_sym_goal, anon_sym_has, anon_sym_flag,
                       anon_sym_missing, anon_sym_reached}
  /\ TopNode.symbol = sym_goal_cond => ChildSymbols(TopNode) \in GoalCondForms
  /\ TopNode.symbol \in {sym_goal_done, sym_goal_start} =>
        /\ Len(Children(TopNode)) = 3
        /\ Children(TopNode)[1].symbol \in {anon_sym_done, anon_sym_start}
        /\ Children(TopNode)[2].symbol = anon_sym_when
        /\ Children(TopNode)[3].symbol = sym_goal_cond
  /\ (input = text_goal_cond_complete /\ Finished) =>
        /\ pc = "accepted"
        /\ { ChildSymbols(node) : node \in FirstGoalConds }
             = { << anon_sym_goal, anon_sym_complete, sym_identifier >>,
                 << anon_sym_flag, anon_sym_in, anon_sym_progress, sym_identifier >> }
  /\ (input = text_goal_cond_item /\ Finished) =>
        /\ pc = "accepted"
        /\ { ChildSymbols(node) : node \in FirstGoalConds }
             = { << anon_sym_has, anon_sym_item, sym_identifier >>,
                 << anon_sym_flag, anon_sym_complete, sym_identifier >> }
  /\ (input = text_goal_cond_room /\ Finished) =>
        /\ pc = "accepted"
        /\ { ChildSymbols(node) : node \in FirstGoalConds }
             = { << anon_sym_reached, anon_sym_room, sym_identifier >>,
                 << anon_sym_missing, anon_sym_flag, sym_identifier >> }
  /\ (input \in {text_goal_cond_done, text_goal_cond_missing_item, text_goal_cond_paren,
                 text_goal_cond_comma, text_goal_cond_two} /\ Finished) => pc = "error"
\* the goal with the conditions `goal complete B` and `flag in progress f` was
\* accepted
C20_Witness ==
  /\ input = text_goal_cond_complete
  /\ pc = "accepted"
  /\ Cardinality(FirstGoalConds) = 2

\* ---- the list of a set declaration ----
\* the parse states entered by the `(` that opens the list of a set declaration
SetOpenStates ==
  { shift[2] : shift \in { sh \in ShiftsOf(anon_sym_LPAREN) :
                             ts_table_entry(sh[1], sym_set_list) # 0 } }
\* the terminals that have an action right after that `(`
AfterSetOpen ==
  UNION { { symbol \in Terminals : TableActions(state, symbol) # << >> } :
          state \in SetOpenStates }
\* the parse states entered by a `,` of a list
SetCommaStates ==
  { shift[2] : shift \in { sh \in ShiftsOf(anon_sym_COMMA) :
                             ts_table_entry(sh[1], aux_sym_set_list_repeat1) # 0 } }
\* the terminals that have an action right after that `,`
AfterSetComma ==
  UNION { { symbol \in Terminals : TableActions(state, symbol) # << >> } :
          state \in SetCommaStates }

\* C21 as stated: a set declaration with nothing between its parentheses,
\* `let set x = ()`, is accepted.
C21_Original ==
  (input = text_set_empty /\ Finished) => pc = "accepted"

\* C21 amended: the list of a set declaration holds at least one value: right
\* after its `(` only a value (an identifier token) is accepted, a set_list has
\* `(`, a value and `)` at least, and `let set x = ()` is an error right after
\* the `(`.
C21_SetListNotEmpty ==
  /\ SetOpenStates # {}
  /\ AfterSetOpen = {sym_comment, sym_identifier}
  /\ TopNode.symbol = sym_set_list =>
        /\ Len(Children(TopNode)) >= 3
        /\ Children(TopNode)[1].symbol = anon_sym_LPAREN
        /\ Children(TopNode)[2].symbol = sym_identifier
        /\ Children(TopNode)[Len(Children(TopNode))].symbol = anon_sym_RPAREN
  /\ (input = text_set_empty /\ Finished) =>
        (pc = "error" /\ TopNode.symbol = anon_sym_LPAREN /\ TopState \in SetOpenStates)
\* the parse of `let set x = ()` stopped right after the `(`
C21_Witness ==
  /\ input = text_set_empty
  /\ pc = "error"
  /\ TopNode.symbol = anon_sym_LPAREN

\* C22 as stated: a `,` right before the closing `)` of the list of a set
\* declaration is accepted, as in `let set x = (1,)`.
C22_Original ==
  (input = text_set_trailing /\ Finished) => pc = "accepted"

\* C22 amended: a `,` in the list of a set declaration must be followed by a
\* value: right after it only a value (an identifier token) is accepted, the
\* children of a set_list after its `(` alternate between values and `,` and end
\* with a value before the `)`, and `let set x = (1,)` is an error right after
\* the `,`.
C22_NoTrailingComma ==
  /\ SetCommaStates # {}
  /\ AfterSetComma = {sym_comment, sym_identifier}
  /\ TopNode.symbol = sym_set_list =>
        /\ Len(Children(TopNode)) % 2 = 1
        /\ \A i \in 2..(Len(Children(TopNode)) - 1) :
              Children(TopNode)[i].symbol
                 = (IF i % 2 = 0 THEN sym_identifier ELSE anon_sym_COMMA)
  /\ (input = text_set_two /\ Finished) => pc = "accepted"
  /\ (input = text_set_trailing /\ Finished) =>
        (pc = "error" /\ TopNode.symbol = anon_sym_COMMA /\ TopState \in SetCommaStates)
\* the parse of `let set x = (1,)` stopped right after the `,`
C22_Witness ==
  /\ input = text_set_trailing
  /\ pc = "error"
  /\ TopNode.symbol = anon_sym_COMMA

\* ---- bare words where a string is expected ----
\* the parse states that shift the opening token of a string
StringShiftStates ==
  { state \in ParseStates \ {0} :
      \E i \in 1..Len(ListedActions(state, aux_sym_string_token1)) :
         ListedActions(state, aux_sym_string_token1)[i].type \in {"SHIFT", "SHIFT_REPEAT"} }
\* those of them that have no action for an identifier
StringOnlyStates ==
  { state \in StringShiftStates : TableActions(state, sym_identifier) = << >> }
\* the keywords that are followed by a string
KeywordsBeforeString ==
  {anon_sym_name, anon_sym_desc, anon_sym_description, anon_sym_text, anon_sym_barred,
   anon_sym_wedge}
\* the parse states entered by the shift of one of these keywords
AfterStringKeyword ==
  UNION { { shift[2] : shift \in ShiftsOf(keyword) } : keyword \in KeywordsBeforeString }

\* C23 as stated: where a string is expected a bare word is accepted in its
\* place, so `room A { name x }` and `goal A x` are accepted.
C23_Original ==
  /\ (input = text_room_name_word /\ Finished) => pc = "accepted"
  /\ (input = text_goal_title_word /\ Finished) => pc = "accepted"

\* C23 amended: a bare word is accepted only where the grammar lists an
\* identifier beside the string (the name of a trigger, the direction of an
\* exit, the words of a condition and of a `do` line), and there it is an
\* identifier: a string node is made of string tokens only. After name, desc,
\* description, text, barred and wedge, and for the title of a goal, only a
\* string is accepted, so `room A { name x }` and `goal A x` are errors at the
\* word.
C23_BareWords ==
  /\ AfterStringKeyword # {}
  /\ AfterStringKeyword \subseteq StringOnlyStates
  /\ StringShiftStates \ StringOnlyStates # {}
  /\ TopNode.symbol = sym_string =>
        /\ Len(TopNode.children) = 1
        /\ TopNode.children[1].symbol \in aux_sym_string_token1..aux_sym_string_token5
  /\ (input = text_room_name_word /\ Finished) =>
        (pc = "error" /\ TopNode.symbol = anon_sym_name /\ TopState \in StringOnlyStates)
  /\ (input = text_goal_title_word /\ Finished) =>
        (pc = "error" /\ TopNode.symbol = sym_identifier /\ TopState \in StringOnlyStates)
  /\ (input = text_trigger_only_when /\ Finished) =>
        /\ pc = "accepted"
        /\ Children(FirstDefinition)[2].symbol = sym_identifier
        /\ Children(FirstDefinition)[2].children = << >>
\* the parse of `room A { name x }` stopped at the word after `name`
C23_Witness ==
  /\ input = text_room_name_word
  /\ pc = "error"
  /\ TopNode.symbol = anon_sym_name

\* ---- the shape of an identifier ----
\* the text of the token that ts_lex returned
TokenText == SubSeq(input, lookahead_token.start + 1, lookahead_token.end)
\* the characters that start an identifier (cases 1, 2, 3 and 17 of ts_lex):
\* a letter, a digit, `-`, `:` or `_`
IdentifierFirstChars == {45, 95} \cup (48..58) \cup Letters
\* ts_lex returned an identifier
IdentifierReturned == pc = "parse" /\ lookahead_token.symbol = sym_identifier
\* the words that start with a digit, a hyphen, a colon and an underscore
OddIdentifiers ==
  { word_digit_first, word_hyphen_first, word_colon_first, word_underscore_first }

\* C24 as stated: an identifier token starts with a letter and goes on with
\* letters, digits, `_`, `:`, `#` and `-` only.
C24_Original ==
  IdentifierReturned =>
     /\ TokenText # << >>
     /\ TokenText[1] \in Letters
     /\ \A i \in 2..Len(TokenText) : TokenText[i] \in IdentifierChars

\* C24 amended: an identifier token starts with a letter, a digit, `-`, `:` or
\* `_` (never with `#`) and goes on with letters, digits, `_`, `:`, `#` and `-`
\* only; in every lex mode that expects an identifier each of the words `9x`,
\* `-x`, `:x` and `_x` is returned as one identifier.
C24_IdentifierShape ==
  /\ IdentifierReturned =>
        /\ TokenText # << >>
        /\ TokenText[1] \in IdentifierFirstChars
        /\ \A i \in 2..Len(TokenText) : TokenText[i] \in IdentifierChars
  /\ \A word \in OddIdentifiers :
        (/\ IsPrefix(word \o Space, input)
         /\ LexDone
         /\ LexMode(TopState) \in IdentifierModes) => IdentifierOver(word)
\* the word `9x` was returned as an identifier
C24_Witness ==
  /\ IsPrefix(word_digit_first \o Space, input)
  /\ IdentifierOver(word_digit_first)

\* ---- the shape of a number ----
\* the ASCII digits (case 329 of ts_lex)
Digits == 48..57
\* the lex modes whose start state leads to case 329 (case 0 of ts_lex)
NumberModes == {0}
\* ts_lex returned a number
NumberReturned == pc = "parse" /\ lookahead_token.symbol = sym_number
\* ts_lex returned the symbol over the first `length` characters of the text
TokenOver(symbol, length) ==
  /\ pc = "parse"
  /\ lookahead_token = [symbol |-> symbol, start |-> 0, end |-> length]

\* C25 as stated: a number token is a maximal run of digits and holds nothing
\* else, a sign included.
C25_Original ==
  NumberReturned =>
     /\ TokenText # << >>
     /\ \A i \in 1..Len(TokenText) : TokenText[i] \in Digits
     /\ lookahead_token.end < Len(input) => input[lookahead_token.end + 1] \notin Digits

\* C25 amended: a number token is a maximal run of digits, optionally preceded
\* by one `-`, and holds neither a decimal point nor an exponent nor a `+`; it
\* is returned in lex mode 0 only. There `-5` and `42` are numbers, `1.5` and
\* `1e5` give the number `1`, and `+5` gives no token; in the lex modes that
\* expect an identifier `42` is returned as an identifier.
C25_NumberShape ==
  /\ NumberReturned =>
        /\ LexMode(TopState) \in NumberModes
        /\ TokenText # << >>
        /\ TokenText[Len(TokenText)] \in Digits
        /\ TokenText[1] \in Digits \cup {45}
        /\ \A i \in 2..Len(TokenText) : TokenText[i] \in Digits
        /\ lookahead_token.end < Len(input) => input[lookahead_token.end + 1] \notin Digits
  /\ (LexDone /\ LexMode(TopState) \in NumberModes) =>
        /\ IsPrefix(word_negative \o Space, input) => TokenOver(sym_number, 2)
        /\ IsPrefix(word_number \o Space, input) => TokenOver(sym_number, 2)
        /\ IsPrefix(word_decimal, input) => TokenOver(sym_number, 1)
        /\ IsPrefix(word_exponent, input) => TokenOver(sym_number, 1)
        /\ IsPrefix(word_plus, input) => pc = "error"
  /\ (LexDone /\ LexMode(TopState) \in IdentifierModes /\ IsPrefix(word_number \o Space, input))
        => IdentifierOver(word_number)
\* the word `-5` was returned as a number
C25_Witness ==
  /\ IsPrefix(word_negative \o Space, input)
  /\ TokenOver(sym_number, 2)

\* ---- comments ----
word_hash_inside ==  \* x#x
  << 120, 35, 120 >>
\* ts_lex returned a comment
CommentReturned == pc = "parse" /\ lookahead_token.symbol = sym_comment
\* the parse states other than the error state in which a comment is not an extra
StatesWithoutComment ==
  { state \in ParseStates \ {0} : TableActions(state, sym_comment) # << SHIFT_EXTRA >> }

\* C26 as stated: outside a string a `#` starts a comment, so no token other
\* than a comment and a string holds a `#`.
C26_Original ==
  (/\ pc = "parse"
   /\ lookahead_token.symbol \notin {sym_comment} \cup (aux_sym_string_token1..aux_sym_string_token5))
     => \A i \in 1..Len(TokenText) : TokenText[i] # 35

\* C26 amended: a `#` at the start of a token starts a comment in every lex
\* mode; the comment runs to the end of the line (the line break is not part of
\* it) and is a token of its own, which every parse state shifts as an extra: no
\* token of the grammar holds it. A `#` that directly follows a character of an
\* identifier does not start a comment: it belongs to the identifier, so `x#x`
\* is one identifier.
C26_Comments ==
  /\ StatesWithoutComment = {}
  /\ (LexDone /\ input # << >> /\ input[1] = 35) =>
        (CommentReturned /\ lookahead_token.start = 0)
  /\ CommentReturned =>
        /\ TokenText # << >>
        /\ TokenText[1] = 35
        /\ \A i \in 1..Len(TokenText) : TokenText[i] # 10
        /\ lookahead_token.end < Len(input) => input[lookahead_token.end + 1] = 10
        /\ lookahead_token.end = Len(input) => closed
  /\ (/\ LexDone
      /\ LexMode(TopState) \in IdentifierModes
      /\ IsPrefix(word_hash_inside \o Space, input)) => IdentifierOver(word_hash_inside)
\* the word `x#x` was returned as one identifier
C26_Witness ==
  /\ IsPrefix(word_hash_inside \o Space, input)
  /\ IdentifierOver(word_hash_inside)

\* ---- double-quoted strings ----
\* the lex modes whose start state opens a string at `"` or `'`
StringModes == {0, 1, 2, 3, 313}
\* the character at `i` follows a backslash that is not itself escaped
\* (cases 4, 5 and 311 of ts_lex)
RECURSIVE Escaped(_, _)
Escaped(text, i) ==
  /\ i > 1
  /\ text[i - 1] = 92
  /\ ~Escaped(text, i - 1)
\* ts_lex returned a double-quoted string
DoubleQuotedReturned == pc = "parse" /\ lookahead_token.symbol = aux_sym_string_token1
\* the text opens a double-quoted string that has no closing `"` before a line
\* break
OpenAtNewline ==
  /\ input # << >>
  /\ input[1] = 34
  /\ \E n \in 2..Len(input) :
        /\ input[n] = 10
        /\ \A i \in 2..(n - 1) : ~(input[i] = 34 /\ ~Escaped(input, i))

\* C27: a double-quoted string token starts with `"`, holds no line break and
\* ends at the first `"` that is not escaped by a backslash, a backslash
\* escaping the character after it, a `"` included; and ts_lex returns no token
\* (a lexical error) for a double-quoted string still open at a line break.
C27_DoubleQuoted ==
  /\ DoubleQuotedReturned =>
        /\ Len(TokenText) >= 2
        /\ TokenText[1] = 34
        /\ TokenText[Len(TokenText)] = 34
        /\ ~Escaped(TokenText, Len(TokenText))
        /\ \A i \in 2..(Len(TokenText) - 1) :
              /\ TokenText[i] # 10
              /\ TokenText[i] = 34 => Escaped(TokenText, i)
  /\ (LexDone /\ LexMode(TopState) \in StringModes /\ OpenAtNewline) => pc = "error"
\* the string `"\""`, which holds an escaped `"`, was returned
C27_Witness ==
  /\ DoubleQuotedReturned
  /\ TokenText = << 34, 92, 34, 34 >>
\* ts_lex returned no token for a string open at a line break
C27_WitnessOpen ==
  /\ pc = "error"
  /\ LexMode(TopState) \in StringModes
  /\ OpenAtNewline

\* the characters ts_lex skips (SKIP) before a token
WhiteSpace == {9, 10, 13, 32}
\* the end of the i-th token handed to the parser, 0 before the first one
TokenEndAt(i) == IF i = 0 THEN 0 ELSE tokens[i].end
\* the gap after the i-th token: up to the start of the next token, or up to
\* the start of the token being lexed
GapEnd(i) ==
  IF i < Len(tokens) THEN tokens[i + 1].start
  ELSE IF pc = "lex" THEN token_start
  ELSE TokenEndAt(i)
\* the source rebuilt from the first n tokens: each gap, then each span
RECURSIVE Rebuilt(_)
Rebuilt(n) ==
  IF n = 0 THEN << >>
  ELSE Rebuilt(n - 1)
       \o SubSeq(input, TokenEndAt(n - 1) + 1, tokens[n].start)
       \o SubSeq(input, tokens[n].start + 1, tokens[n].end)

\* C30: the spans of the tokens handed to the parser, comments included, lie in
\* source order without overlap, only white space lies in the gaps between
\* them, and gaps and spans concatenated in order give back the source read so
\* far, the whole source once it is accepted.
C30_SpansTileSource ==
  /\ \A i \in 1..Len(tokens) :
        /\ TokenEndAt(i - 1) <= tokens[i].start
        /\ tokens[i].start <= tokens[i].end
        /\ tokens[i].end <= Len(input)
  /\ \A i \in 0..Len(tokens) :
        \A k \in (TokenEndAt(i) + 1)..GapEnd(i) : input[k] \in WhiteSpace
  /\ Rebuilt(Len(tokens)) = SubSeq(input, 1, TokenEndAt(Len(tokens)))
  /\ pc = "accepted" => Rebuilt(Len(tokens)) = input
\* `npc A { # c\n}` was accepted: six tokens, a comment and the end of input
\* among them, with white space between them
C30_Witness ==
  /\ pc = "accepted"
  /\ input = text_npc_comment
  /\ Len(tokens) = 6
  /\ \E i \in 1..Len(tokens) : tokens[i].symbol = sym_comment
  /\ \E i \in 1..Len(tokens) : TokenEndAt(i - 1) < tokens[i].start

\* the token one call of ts_lex returns for a text when it runs alone, from
\* lex state `state` at `pos`; symbol NoToken when it returns false
RECURSIVE LexAlone(_, _, _, _, _, _)
LexAlone(text, state, pos, start, end, symbol) ==
  LET eof == pos >= Len(text)
      step == ts_lex(state, IF eof THEN 0 ELSE text[pos + 1], eof)
      sym == IF step.accept # NoToken THEN step.accept ELSE symbol
      tend == IF step.accept # NoToken THEN pos ELSE end
      next == IF eof THEN pos ELSE pos + 1
  IN  IF step.op = "ADVANCE" THEN LexAlone(text, step.state, next, start, tend, sym)
      ELSE IF step.op = "SKIP" THEN LexAlone(text, step.state, next, next, tend, sym)
      ELSE IF step.op = "RETURN_FALSE" \/ sym = NoToken THEN NoLookahead
      ELSE [symbol |-> sym, start |-> start, end |-> tend]
\* the result of the call that owns `lexer` is the result of the call run alone
OwnResult(lexer) ==
  LET alone == LexAlone(lexer.input, LexMode(lexer.stack[1].state), 0, 0, 0, NoToken)
  IN  /\ lexer.pc = "parse" => lexer.lookahead_token = alone
      /\ lexer.pc = "error" => alone = NoLookahead
      /\ lexer.pc \in {"lex", "parse", "error"}
\* every call in progress, running or suspended
Calls == { Lexer } \cup { suspended[i] : i \in 1..Len(suspended) }

RECURSIVE BraceDepth(_)
BraceDepth(n) ==
  IF n = 0 THEN 0
  ELSE BraceDepth(n - 1)
       + (IF tokens[n].symbol = anon_sym_LBRACE THEN 1
          ELSE IF tokens[n].symbol = anon_sym_RBRACE THEN 0 - 1
          ELSE 0)

\* C32: in an accepted input the `{` and `}` tokens are balanced and properly
\* nested: no prefix of the token sequence holds more `}` than `{`, and the
\* whole sequence holds as many of one as of the other.
C32_BracesBalanced ==
  pc = "accepted" =>
     /\ \A n \in 0..Len(tokens) : BraceDepth(n) >= 0
     /\ BraceDepth(Len(tokens)) = 0
\* an exit block inside a room block was accepted: two `{` were open at once
C32_Witness ==
  /\ pc = "accepted"
  /\ input = text_exit_full
  /\ \E n \in 1..Len(tokens) : BraceDepth(n) = 2

\* the parse states whose table entry for a comment is SHIFT_EXTRA alone
CommentExtraStates ==
  { state \in ParseStates : TableActions(state, sym_comment) = << SHIFT_EXTRA >> }
\* the lex modes in which `# c` is returned as one comment token
CommentLexModes ==
  { mode \in LexModes :
      LexAlone(text_comment, mode, 0, 0, 0, NoToken)
        = [symbol |-> sym_comment, start |-> 0, end |-> Len(text_comment)] }
\* the entries of a stack that are not extras
GrammarEntries(stk) == SelectSeq(stk, LAMBDA entry : ~entry.node.extra)

C34_WholeWordKeywords ==
  pc = "accepted" =>
     \A i \in 1..Len(tokens) :
        (tokens[i].symbol \in TopLevelKeywords /\ tokens[i].end < Len(input)) =>
           input[tokens[i].end + 1] \notin IdentifierChars


\* the lex modes whose start state accepts a token before a character is read
AcceptingStartModes ==
  { mode \in LexModes :
      \E lookahead \in 0..127, eof \in BOOLEAN : ts_lex(mode, lookahead, eof).accept # NoToken }

NoQuotePair ==
  \A i \in 4..(Len(input) - 1) : ~(input[i] = 34 /\ input[i + 1] = 34)

\* C36: for a text that opens a block string with `"""` ts_lex does not fail:
\* it returns the closed block string, or else the empty string made of the
\* first two quotes, and it returns the latter whenever the block string is
\* never closed; the third quote and the rest remain to be read.
C36_OpenBlockString ==
  (LexDone /\ LexMode(TopState) \in StringModes /\ IsPrefix(head_block_open, input)) =>
     /\ pc = "parse"
     /\ lookahead_token.symbol \in {aux_sym_string_token1, aux_sym_string_token3}
     /\ lookahead_token.symbol = aux_sym_string_token1 =>
           lookahead_token = [symbol |-> aux_sym_string_token1, start |-> 0, end |-> 2]
     /\ lookahead_token.symbol = aux_sym_string_token3 =>
           /\ lookahead_token.start = 0
           /\ lookahead_token.end >= 5
     /\ NoQuotePair => lookahead_token.symbol = aux_sym_string_token1
\* `"""x"x` was read to its end and the empty string `""` was returned
C36_Witness ==
  /\ pc = "parse"
  /\ closed
  /\ input = head_block_open \o << 120, 34, 120 >>
  /\ position = Len(input)
  /\ lookahead_token = [symbol |-> aux_sym_string_token1, start |-> 0, end |-> 2]

\* ---- raw strings ----
\* a `"` directly followed by `#` stands at place i of the text
CloseAt(i) == i < Len(input) /\ input[i] = 34 /\ input[i + 1] = 35

\* C37: a raw string token starts with `r#"` and ends with the first `"#` that
\* follows the opening delimiter; backslashes and `#` inside are content.
C37_RawStringEnds ==
  (pc = "parse" /\ lookahead_token.symbol = aux_sym_string_token5) =>
     /\ lookahead_token.start = 0
     /\ IsPrefix(head_raw_open, input)
     /\ CloseAt(lookahead_token.end - 1)
     /\ \A i \in 4..(lookahead_token.end - 2) : ~CloseAt(i)

\* ---- where a number is taken ----
\* the parse states that shift a number and whose lex mode returns numbers
NumberShiftStates ==
  { state \in ParseStates \ {0} :
      /\ LexMode(state) \in NumberModes
      /\ \E i \in 1..Len(ListedActions(state, sym_number)) :
            ListedActions(state, sym_number)[i].type \in {"SHIFT", "SHIFT_REPEAT"} }
\* the parse states that list an action for a number though their lex mode
\* returns none: statements of conditions and of `do`
NumberEntryStates ==
  { state \in ParseStates \ {0} :
      /\ LexMode(state) \notin NumberModes
      /\ ListedActions(state, sym_number) # << >> }
\* the states that the shift of `width` leads to
AfterWidth == { shift[2] : shift \in ShiftsOf(anon_sym_width) }
\* the terminals whose shift leads to a state that shifts a number
BeforeNumber ==
  UNION { { symbol \in Terminals :
              \E i \in 1..Len(ListedActions(state, symbol)) :
                 /\ ListedActions(state, symbol)[i].type \in {"SHIFT", "SHIFT_REPEAT"}
                 /\ ListedActions(state, symbol)[i].state \in NumberShiftStates } :
          state \in ParseStates \ {0} }
\* the i-th token handed to the parser is a run of digits
DigitsAt(i) ==
  /\ tokens[i].start < tokens[i].end
  /\ \A k \in (tokens[i].start + 1)..tokens[i].end : input[k] \in Digits

\* C38: a number is shifted only in the state that follows the keyword `width`
\* (no other state both shifts a number and is lexed in a mode that returns
\* one), and a run of digits lexed where the grammar admits one elsewhere, in a
\* condition, a `do` statement, a set list or a name, all of them lexed in
\* other modes, is handed to the parser as an identifier.
C38_NumberAfterWidth ==
  /\ NumberShiftStates = AfterWidth
  /\ Cardinality(NumberShiftStates) = 1
  /\ BeforeNumber = {anon_sym_width}
  /\ NumberEntryStates # {}
  /\ [](\A i \in 1..Len(tokens) :
           (DigitsAt(i) /\ LexMode(tokens[i].state) \notin NumberModes) =>
              tokens[i].symbol = sym_identifier)
  /\ [][(pc = "parse" /\ lookahead_token.symbol = sym_number /\ pc' = "lex") =>
          /\ TopState \in AfterWidth
          /\ stack[Len(stack)].node.symbol = anon_sym_width]_vars
\* in `spinner A { wedge "a" width 2 }` the 2 was shifted as a number after `width`
C38_Witness ==
  /\ pc = "accepted"
  /\ input = text_spinner_wedge_width
  /\ \E i \in 2..Len(tokens) :
        /\ tokens[i].symbol = sym_number
        /\ tokens[i - 1].symbol = anon_sym_width
        /\ tokens[i].state \in AfterWidth
\* in `trigger "t" { do x 2 }` the 2 was handed over as an identifier
C38_WitnessDo ==
  /\ pc = "accepted"
  /\ input = text_do_number
  /\ \E i \in 1..Len(tokens) : DigitsAt(i) /\ tokens[i].symbol = sym_identifier

\* ---- the action list of a do statement ----
\* the tokens that are actions of a `do` statement: identifiers, numbers, strings
ActionTokens == {sym_identifier, sym_number, sym_string}
\* the tokens an action list ends at
ActionListEnds == {anon_sym_if, anon_sym_do, anon_sym_LBRACE, anon_sym_RBRACE}
\* the parse state after `do`, and the states after one action and after more
AfterDo == { shift[2] : shift \in ShiftsOf(anon_sym_do) }
AfterFirstAction ==
  { shift[2] : shift \in { pair \in ShiftsOf(sym_identifier) : pair[1] \in AfterDo } }
AfterAction ==
  AfterFirstAction \cup
  { shift[2] : shift \in { pair \in ShiftsOf(sym_identifier) : pair[1] \in AfterFirstAction } }
\* the lex modes in which the tokens after the first action are lexed
ActionListModes == { LexMode(state) : state \in AfterAction }
\* the terminals a parse state lists an action for, comments apart
ListedTerminals(state) ==
  { symbol \in Terminals \ {sym_comment} : ListedActions(state, symbol) # << >> }
\* the terminals listed in the state after `do`
FirstActionTerminals == UNION { ListedTerminals(state) : state \in AfterDo }
\* the states after an action that do not list every token a list ends at
OpenEndedStates ==
  { state \in AfterAction : ~(ActionListEnds \subseteq ListedTerminals(state)) }
\* the do statements of the tree
DoStmts == { node \in NodesOf(Root) : node.symbol = sym_do_stmt }
\* the actions of a do statement: its visible children but `do` and a block
ActionsOf(node) ==
  SelectSeq(VisibleChildren(node),
            LAMBDA kid : kid.symbol \notin {anon_sym_do, sym_braced_block})
\* the first token handed to the parser at or after the offset, comments apart
TokenFrom(offset) ==
  LET later == { i \in 1..Len(tokens) :
                   tokens[i].start >= offset /\ tokens[i].symbol # sym_comment }
  IN  tokens[CHOOSE i \in later : \A k \in later : i <= k]

\* C39: the action list of a `do` statement holds at least one action and is
\* not ended by a line break: it goes on until an `if`, `do`, `{` or `}`
\* token; inside the list `if` and `do` are keywords only as whole words, a
\* longer word such as `door` is an action.
C39_ActionList ==
  /\ AfterDo # {}
  /\ FirstActionTerminals \cap ActionListEnds = {}
  /\ Cardinality(AfterAction) = 2
  /\ ActionListModes \subseteq IdentifierModes
  /\ OpenEndedStates = {}
  /\ \A i \in 1..Len(tokens) :
        (/\ tokens[i].symbol \in {anon_sym_if, anon_sym_do}
         /\ LexMode(tokens[i].state) \in ActionListModes
         /\ tokens[i].end < Len(input)) => input[tokens[i].end + 1] \notin IdentifierChars
  /\ pc = "accepted" =>
       \A node \in DoStmts :
          LET kids == VisibleChildren(node)
              actions == ActionsOf(node)
          IN  /\ kids[1].symbol = anon_sym_do
              /\ Len(actions) >= 1
              /\ \A k \in 1..Len(actions) :
                    /\ actions[k].symbol \in ActionTokens
                    /\ actions[k] = kids[k + 1]
              /\ TokenFrom(actions[Len(actions)].end).symbol \in ActionListEnds
\* in `trigger "t" { do x\ndoor do y { } }` the first do statement holds the
\* actions `x` and `door`, a line break between them, and ends at the next `do`
C39_Witness ==
  /\ pc = "accepted"
  /\ input = text_do_lines
  /\ \E node \in DoStmts :
        /\ Len(ActionsOf(node)) = 2
        /\ Text(ActionsOf(node)[1]) = << 120 >>
        /\ Text(ActionsOf(node)[2]) = << 100, 111, 111, 114 >>
        /\ input[ActionsOf(node)[1].end + 1] = 10
        /\ TokenFrom(node.end).symbol = anon_sym_do

\* ---- the attributes of an exit block ----
\* the keywords that start an attribute of an exit
ExitAttrKeywords == {anon_sym_required_flags, anon_sym_required_items, anon_sym_barred}
\* the parse states inside an exit block: those that shift an attribute keyword
ExitBlockStates ==
  { state \in ParseStates \ {0} :
      \E symbol \in ExitAttrKeywords : \E shift \in ShiftsOf(symbol) : shift[1] = state }
\* the states entered once an attribute is complete
AfterExitAttr ==
  { ts_table_entry(state, symbol) : state \in ExitBlockStates, symbol \in ExitAttrs } \ {0}
\* the states entered by the comma that follows an attribute
AfterAttrComma ==
  { shift[2] : shift \in { pair \in ShiftsOf(anon_sym_COMMA) : pair[1] \in AfterExitAttr } }
\* the states of a set that, on a keyword or on `}`, do anything but reduce an
\* exit attribute of `count` children
NotReducing(states, count) ==
  { state \in states :
      \E symbol \in ExitAttrKeywords \cup {anon_sym_RBRACE} :
         ListedActions(state, symbol) # << REDUCE(sym_exit_attr, count) >> }
\* the states inside an exit block that do not take every keyword and `}`, or
\* that an attribute leads out of the block
ClosedExitBlockStates ==
  { state \in ExitBlockStates :
      \/ \E symbol \in ExitAttrKeywords :
            \A shift \in ShiftsOf(symbol) : shift[1] # state
      \/ ListedActions(state, anon_sym_RBRACE) = << >>
      \/ ts_table_entry(state, sym_exit_attr) \notin ExitBlockStates }
\* the states after an attribute that list no action for a comma
CommaRefused ==
  { state \in AfterExitAttr : ListedActions(state, anon_sym_COMMA) = << >> }
\* the states after an attribute's comma that list an action for another comma
SecondComma ==
  { state \in AfterAttrComma : ListedActions(state, anon_sym_COMMA) # << >> }
AttrNotReduced == NotReducing(AfterExitAttr, 1)
CommaNotReduced == NotReducing(AfterAttrComma, 2)
\* the exit blocks of the tree
ExitBlocks == { node \in NodesOf(Root) : node.symbol = sym_exit_block }

\* C40: inside an exit block the attributes required_flags(...),
\* required_items(...) and `barred` with a string may come any number of
\* times, in any order, and each may be followed by a comma: every state inside
\* the block takes each of the three keywords and `}`, an attribute leads back
\* to such a state, and after an attribute a comma is shifted or the attribute
\* is reduced without one. So the block of an accepted text is `{`, attributes,
\* `}`, each attribute one of the three with at most one comma after it;
\* `{ barred "m", barred "k" required_flags(a), }` is accepted and a comma that
\* follows no attribute is an error.
C40_ExitAttributes ==
  /\ Cardinality(ExitBlockStates) = 3
  /\ ClosedExitBlockStates = {}
  /\ AfterExitAttr # {}
  /\ CommaRefused = {}
  /\ AfterAttrComma # {}
  /\ SecondComma = {}
  /\ AttrNotReduced = {}
  /\ CommaNotReduced = {}
  /\ pc = "accepted" =>
       \A block \in ExitBlocks :
          LET kids == Children(block)
          IN  /\ kids[1].symbol = anon_sym_LBRACE
              /\ kids[Len(kids)].symbol = anon_sym_RBRACE
              /\ \A i \in 2..(Len(kids) - 1) :
                    /\ kids[i].symbol = sym_exit_attr
                    /\ Len(Children(kids[i])) \in {1, 2}
                    /\ Children(kids[i])[1].symbol \in ExitAttrs
                    /\ Len(Children(kids[i])) = 2 =>
                          Children(kids[i])[2].symbol = anon_sym_COMMA
  /\ (input = text_exit_commas /\ Finished) => pc = "accepted"
  /\ (input = text_exit_full /\ Finished) => pc = "accepted"
  /\ (input = text_exit_comma_first /\ Finished) => pc = "error"
\* `{ barred "m", barred "k" required_flags(a), }` was accepted as a block of
\* three attributes: barred twice, then required_flags, the first and the last
\* with a comma and the second without
C40_Witness ==
  /\ pc = "accepted"
  /\ input = text_exit_commas
  /\ \E block \in ExitBlocks :
        LET kids == Children(block)
        IN  /\ Len(kids) = 5
            /\ ChildSymbols(kids[2]) = << sym_exit_barred, anon_sym_COMMA >>
            /\ ChildSymbols(kids[3]) = << sym_exit_barred >>
            /\ ChildSymbols(kids[4]) = << sym_exit_required_flags, anon_sym_COMMA >>
====
